---------------------------- MODULE Spec2Model ----------------------------
(***************************************************************************)
(* Authentication, token registry and rate limiting of the temperature     *)
(* monitor backend (src/backend).  Time is the wall clock in whole         *)
(* seconds: PyJWT stores iat/exp as integer seconds, and the rate limiter  *)
(* only compares and subtracts clock readings.                             *)
(***************************************************************************)
EXTENDS Integers, Sequences, FiniteSets, TLC

VARIABLES
    now,                    \* the wall clock (time.time(), datetime.now), seconds
    users,                  \* Credential Store: username -> password hash
    failed_attempts,        \* RateLimiter.failed_attempts: identifier -> entry
    active_refresh_tokens,  \* TokenStorage.active_refresh_tokens: username -> set
    blacklisted_tokens,     \* TokenStorage.blacklisted_tokens
    issued,                 \* history: every token string jwt_service has produced
    rotated,                \* history: tokens the refresh handler has revoked
    voided,                 \* history: refresh tokens issued before a logout-all
    killed,                 \* history: valid access tokens a logout has accepted
    failedFor,              \* history: (ip, username) arguments of recorded failures
    streak,                 \* history: per identifier, the failures recorded in a row
    resp,                   \* the last request and its response
    threads,                \* concurrent signup requests: where each one stands
    rsvc,                   \* Reading Service: the last call and what it gave
    store,                  \* ReadingStorage: the raw readings loaded at start-up
    csv,                    \* app.py: the rows of each day's readings file
    temp_data,              \* backgroundJob: the rows of temp_data.csv
    cmdq                    \* the Arduino command queue, its poll loop and the device

vars == <<now, users, failed_attempts, active_refresh_tokens, blacklisted_tokens,
          issued, rotated, voided, killed, failedFor, streak, resp, threads, rsvc,
          store, csv, temp_data, cmdq>>

\* what the auth handlers that run one at a time leave alone
rest == <<threads, rsvc, store, csv, temp_data, cmdq>>

\* the state of the auth subsystem
auth == <<now, users, failed_attempts, active_refresh_tokens, blacklisted_tokens,
          issued, rotated, voided, killed, failedFor, streak, resp, threads>>

-----------------------------------------------------------------------------
(* Bounds of the model *)

\* the clock starts here (a positive epoch time) ...
StartTime == 1
\* ... and the model stops it after this many seconds
MaxTicks == 2
\* request threads handling signups at the same time
NumThreads == 2
\* the failures counted for one identifier when the limiter is called directly
MaxRecorded == 3

(* Configuration (src/backend/config.py), scaled to the clock bound *)
JWT_ACCESS_TOKEN_EXPIRES_IN == 1
JWT_REFRESH_TOKEN_EXPIRES_IN == 2
RATE_LIMIT_MAX_ATTEMPTS == 2
RATE_LIMIT_WINDOW_SECONDS == 1
RATE_LIMIT_LOCKOUT_DURATION == 2

(* HTTP status codes (module constants, imported by routes and exceptions) *)
HTTP_OK == 200
HTTP_CREATED == 201
HTTP_BAD_REQUEST == 400
HTTP_UNAUTHORIZED == 401
HTTP_NOT_FOUND == 404
HTTP_INTERNAL_SERVER_ERROR == 500
HTTP_TOO_MANY_REQUESTS == 429

-----------------------------------------------------------------------------
(* Strings are sequences of characters, so that lower(), strip() and       *)
(* concatenation are computed.                                             *)

Bob == <<"B", "o", "b">>
bob == <<"b", "o", "b">>
amy == <<"a", "m", "y">>
EmptyName == << >>
ShortName == <<"a", "m">>
PaddedName == <<" ", "b", "o", "b">>
Ip1 == <<"1", "0">>
Ip2 == <<":", ":", "1">>

\* the username argument left at its default (None)
NoUsername == <<"None">>

UpperOf == [c \in {"b", "o", "a", "m", "y"} |->
              CASE c = "b" -> "B" [] c = "o" -> "O" [] c = "a" -> "A"
                [] c = "m" -> "M" [] c = "y" -> "Y"]

\* str.lower(), one character
LowerChar(c) ==
    IF \E l \in DOMAIN UpperOf : UpperOf[l] = c
    THEN CHOOSE l \in DOMAIN UpperOf : UpperOf[l] = c
    ELSE c

\* str.lower()
Lower(s) == [i \in DOMAIN s |-> LowerChar(s[i])]

IsSpace(c) == c = " "

\* str.isalnum(), one character
IsAlnumChar(c) ==
    \/ c \in DOMAIN UpperOf
    \/ \E l \in DOMAIN UpperOf : UpperOf[l] = c
    \/ c \in {"0", "1", "2"}

RECURSIVE LStrip(_)
LStrip(s) == IF s # << >> /\ IsSpace(Head(s)) THEN LStrip(Tail(s)) ELSE s

RECURSIVE RStrip(_)
RStrip(s) ==
    IF s # << >> /\ IsSpace(s[Len(s)]) THEN RStrip(SubSeq(s, 1, Len(s) - 1)) ELSE s

\* str.strip()
Strip(s) == RStrip(LStrip(s))

-----------------------------------------------------------------------------
(* Token Service (services/jwt_service.py) *)

\* jwt.encode: HS256 is deterministic, so the token string is a function of
\* its payload; iat and exp are stored as whole seconds.
JwtEncode(username, type, iat, exp) ==
    [username |-> username, type |-> type, iat |-> iat, exp |-> exp, sig |-> "ok"]

generate_access_token(username) ==
    JwtEncode(username, "access", now, now + JWT_ACCESS_TOKEN_EXPIRES_IN)

generate_refresh_token(username) ==
    JwtEncode(username, "refresh", now, now + JWT_REFRESH_TOKEN_EXPIRES_IN)

\* a string that is no JWT at all ('invalid.token.here')
Malformed == [username |-> << >>, type |-> "", iat |-> 0, exp |-> 0, sig |-> "malformed"]

\* an issued token with its signature altered
Forged(t) == [t EXCEPT !.sig = "bad"]

\* the payload jwt.decode returns
Payload(t) == [username |-> t.username, type |-> t.type, iat |-> t.iat, exp |-> t.exp]

\* jwt.decode raises ExpiredSignatureError when exp <= now
Expired(t) == t.exp <= now

\* what verify_token returns for every token it rejects (Python's None)
NoPayload == [username |-> << >>, type |-> "None", iat |-> 0, exp |-> 0]

\* verify_token answering an expired token apart from an invalid one
verify_token_tells_expiry(t) ==
    IF t.sig = "ok" /\ ~Expired(t) THEN Payload(t)
    ELSE IF t.sig = "ok" THEN [NoPayload EXCEPT !.type = "expired"]
    ELSE NoPayload

\* verify_token with verify_exp switched off
verify_token_no_exp(t) ==
    IF t.sig = "ok" THEN Payload(t) ELSE NoPayload

\* verify_token: the decoded payload, or None for a bad signature, a
\* malformed string or an expired token
verify_token(t) ==
    IF t.sig = "ok" /\ ~Expired(t) THEN Payload(t) ELSE NoPayload

-----------------------------------------------------------------------------
(* Token Registry (services/token_storage.py).  The per-user map is a      *)
(* dict: its DOMAIN is the set of keys present.                            *)

\* active_refresh_tokens.get(username, set())
ActiveOf(art, username) == IF username \in DOMAIN art THEN art[username] ELSE {}

add_refresh_token(art, username, token) ==
    [k \in DOMAIN art \cup {username} |->
        IF k = username THEN ActiveOf(art, username) \cup {token} ELSE art[k]]

is_refresh_token_active(art, username, token) == token \in ActiveOf(art, username)

\* a discard that removes nothing
DiscardNothing(art, username, token) ==
    [k \in DOMAIN art \cup {username} |-> ActiveOf(art, k)]

\* self.active_refresh_tokens[username].discard(refresh_token): the user's
\* set is changed in place (a missing key gets an empty set)
DiscardInPlace(art, username, token) ==
    [k \in DOMAIN art \cup {username} |->
        IF k = username THEN ActiveOf(art, k) \ {token} ELSE art[k]]

\* set.discard returns None, whether or not the element was present
DiscardResult == FALSE

\* revoke_refresh_token: the registry afterwards and the value returned
revoke_refresh_token(art, bl, username, token) ==
    IF username \in DOMAIN art
    THEN LET art1 == [art EXCEPT ![username] = @ \ {token}]
             removed == DiscardResult
         IN  IF removed \/ token \in ActiveOf(art1, username)
             THEN [active |-> art1, blacklist |-> bl \cup {token}, ret |-> TRUE]
             ELSE [active |-> art1, blacklist |-> bl, ret |-> FALSE]
    ELSE [active |-> art, blacklist |-> bl, ret |-> FALSE]

\* revoke_all_user_tokens that clears the user's set without blacklisting it
revoke_all_user_tokens_no_blacklist(art, bl, username) ==
    IF username \in DOMAIN art
    THEN [active |-> [k \in DOMAIN art \ {username} |-> art[k]],
          blacklist |-> bl,
          ret |-> Cardinality(art[username])]
    ELSE [active |-> art, blacklist |-> bl, ret |-> 0]

\* revoke_all_user_tokens: the registry afterwards and the count returned
revoke_all_user_tokens(art, bl, username) ==
    IF username \in DOMAIN art
    THEN [active |-> [k \in DOMAIN art \ {username} |-> art[k]],
          blacklist |-> bl \cup art[username],
          ret |-> Cardinality(art[username])]
    ELSE [active |-> art, blacklist |-> bl, ret |-> 0]

\* blacklist_token that forgets the token
blacklist_token_dropped(bl, token) == bl

blacklist_token(bl, token) == bl \cup {token}

is_token_blacklisted(bl, token) == token \in bl

-----------------------------------------------------------------------------
(* Request Gate (utils/auth_middleware.py) *)

\* the Authorization header of a request
NoHeader == [bearer |-> FALSE, tok |-> Malformed]
Bearer(t) == [bearer |-> TRUE, tok |-> t]

\* extract_token_from_header returned a token (not None)
HasToken(h) == h.bearer

Passed(username, payload) ==
    [err |-> "", msg |-> "", user |-> username, payload |-> payload]
Rejected(msg) ==
    [err |-> "AuthenticationError", msg |-> msg, user |-> << >>, payload |-> NoPayload]

\* require_auth without the check of the token type
require_auth_any_type(h) ==
    IF ~HasToken(h) THEN Rejected("Authentication required. Please provide a valid token.")
    ELSE IF is_token_blacklisted(blacklisted_tokens, h.tok)
    THEN Rejected("Token has been revoked.")
    ELSE LET payload == verify_token(h.tok) IN
         IF payload = NoPayload THEN Rejected("Invalid or expired token.")
         ELSE Passed(payload.username, payload)

\* the decorator require_auth, up to the call of the wrapped handler
require_auth(h) ==
    IF ~HasToken(h) THEN Rejected("Authentication required. Please provide a valid token.")
    ELSE IF is_token_blacklisted(blacklisted_tokens, h.tok)
    THEN Rejected("Token has been revoked.")
    ELSE LET payload == verify_token(h.tok) IN
         IF payload = NoPayload THEN Rejected("Invalid or expired token.")
         ELSE IF payload.type # "access"
         THEN Rejected("Invalid token type. Access token required.")
         ELSE Passed(payload.username, payload)

\* the decorator require_refresh_token, up to the call of the wrapped handler
require_refresh_token(h) ==
    IF ~HasToken(h) THEN Rejected("Refresh token required.")
    ELSE IF is_token_blacklisted(blacklisted_tokens, h.tok)
    THEN Rejected("Refresh token has been revoked.")
    ELSE LET payload == verify_token(h.tok) IN
         IF payload = NoPayload THEN Rejected("Invalid or expired refresh token.")
         ELSE IF payload.type # "refresh"
         THEN Rejected("Invalid token type. Refresh token required.")
         ELSE IF ~is_refresh_token_active(active_refresh_tokens, payload.username, h.tok)
         THEN Rejected("Refresh token has been revoked.")
         ELSE Passed(payload.username, payload)

-----------------------------------------------------------------------------
(* Validators (utils/validators.py) *)

\* a password is known by its text and its length
Pw(text, len) == [text |-> text, len |-> len]
GoodPw == Pw("testpass123", 11)
WrongPw == Pw("wrongpass", 9)
ShortPw == Pw("abc", 3)
NoPw == Pw("", 0)

\* validate_username: "" when valid, the error message otherwise
validate_username(username) ==
    IF username = << >> THEN "Username is required"
    ELSE LET stripped == Strip(username) IN
         IF Len(stripped) < 3 THEN "Username must be at least 3 characters long"
         ELSE IF Len(stripped) > 50
         THEN "Username must be no more than 50 characters long"
         ELSE IF \/ \A i \in DOMAIN stripped : stripped[i] = "_"
                 \/ \E i \in DOMAIN stripped :
                        stripped[i] # "_" /\ ~IsAlnumChar(stripped[i])
         THEN "Username can only contain letters, numbers, and underscores"
         ELSE ""

\* validate_password: "" when valid, the error message otherwise
validate_password(password) ==
    IF password.len = 0 THEN "Password is required"
    ELSE IF password.len < 6 THEN "Password must be at least 6 characters long"
    ELSE IF password.len > 128
    THEN "Password must be no more than 128 characters long"
    ELSE ""

-----------------------------------------------------------------------------
(* Credential Store (services/user_service.py over storage.file_storage) *)

\* user_exists finding no user at all
user_exists_never(us, username) == FALSE

user_exists(us, username) == username \in DOMAIN us

\* bcrypt.hashpw / bcrypt.checkpw: the hash matches exactly its own password
HashOf(password) == <<"bcrypt", password.text>>

verify_password(us, username, password) ==
    user_exists(us, username) /\ us[username] = HashOf(password)

\* UserStorage.add_user
add_user(us, username, hash) ==
    [k \in DOMAIN us \cup {username} |-> IF k = username THEN hash ELSE us[k]]

-----------------------------------------------------------------------------
(* Rate Limiter (utils/rate_limiter.py).  failed_attempts is a defaultdict: *)
(* reading a missing key inserts the default entry.  None is written 0 in   *)
(* first_attempt and locked_until: the code only tests them for truth, and  *)
(* the clock is positive.                                                   *)

NoTime == 0

DefaultEntry == [attempts |-> 0, first_attempt |-> NoTime, locked_until |-> NoTime]

\* self.failed_attempts[identifier] on a defaultdict
Touch(fa, identifier) ==
    IF identifier \in DOMAIN fa THEN fa
    ELSE [k \in DOMAIN fa \cup {identifier} |->
             IF k = identifier THEN DefaultEntry ELSE fa[k]]

\* the truth value of the username argument
Truthy(username) == username # NoUsername /\ username # << >>

_get_identifier(ip_address, username) ==
    IF Truthy(username) THEN ip_address \o <<":">> \o Lower(username)
    ELSE ip_address

\* _is_locked that leaves an expired lock in the entry
_is_locked_keeps_expired(fa, identifier) ==
    LET fa1 == Touch(fa, identifier)
        entry == fa1[identifier]
    IN  [locked |-> entry.locked_until # NoTime /\ entry.locked_until > now, fa |-> fa1]

\* _is_locked: whether locked, and the table afterwards (an expired lock is
\* cleared)
_is_locked(fa, identifier) ==
    LET fa1 == Touch(fa, identifier)
        entry == fa1[identifier]
    IN  IF entry.locked_until # NoTime /\ entry.locked_until > now
        THEN [locked |-> TRUE, fa |-> fa1]
        ELSE IF entry.locked_until # NoTime /\ entry.locked_until <= now
        THEN [locked |-> FALSE, fa |-> [fa1 EXCEPT ![identifier] = DefaultEntry]]
        ELSE [locked |-> FALSE, fa |-> fa1]

_get_lockout_duration(attempts) ==
    IF attempts >= RATE_LIMIT_MAX_ATTEMPTS THEN RATE_LIMIT_LOCKOUT_DURATION ELSE 0

\* check_rate_limit that lets a locked identifier pass
check_rate_limit_open(fa, ip_address, username) ==
    LET identifier == _get_identifier(ip_address, username) IN
    [allowed |-> TRUE, retry_after |-> NoTime, fa |-> Touch(fa, identifier)]

\* check_rate_limit: (is_allowed, retry_after) and the table afterwards
check_rate_limit(fa, ip_address, username) ==
    LET identifier == _get_identifier(ip_address, username)
        fa1 == Touch(fa, identifier)
        lk == _is_locked(fa1, identifier)
        entry == lk.fa[identifier]
    IN  IF lk.locked
        THEN [allowed |-> FALSE, retry_after |-> entry.locked_until - now, fa |-> lk.fa]
        ELSE IF entry.first_attempt # NoTime
                /\ now - entry.first_attempt > RATE_LIMIT_WINDOW_SECONDS
        THEN [allowed |-> TRUE, retry_after |-> NoTime,
              fa |-> [lk.fa EXCEPT ![identifier].attempts = 0,
                                   ![identifier].first_attempt = NoTime]]
        ELSE [allowed |-> TRUE, retry_after |-> NoTime, fa |-> lk.fa]

\* record_failed_attempt locking one failure late (> for >=)
record_failed_attempt_late(fa, ip_address, username) ==
    LET identifier == _get_identifier(ip_address, username)
        fa1 == Touch(fa, identifier)
        entry == fa1[identifier]
        e1 == IF entry.first_attempt = NoTime
                 \/ now - entry.first_attempt > RATE_LIMIT_WINDOW_SECONDS
              THEN [entry EXCEPT !.first_attempt = now, !.attempts = 0]
              ELSE entry
        e2 == [e1 EXCEPT !.attempts = @ + 1]
        e3 == IF e2.attempts > RATE_LIMIT_MAX_ATTEMPTS
              THEN [e2 EXCEPT !.locked_until = now + _get_lockout_duration(e2.attempts)]
              ELSE e2
    IN  [fa1 EXCEPT ![identifier] = e3]

\* record_failed_attempt that never restarts the window
record_failed_attempt_one_window(fa, ip_address, username) ==
    LET identifier == _get_identifier(ip_address, username)
        fa1 == Touch(fa, identifier)
        entry == fa1[identifier]
        e1 == IF entry.first_attempt = NoTime
              THEN [entry EXCEPT !.first_attempt = now, !.attempts = 0]
              ELSE entry
        e2 == [e1 EXCEPT !.attempts = @ + 1]
        e3 == IF e2.attempts >= RATE_LIMIT_MAX_ATTEMPTS
              THEN [e2 EXCEPT !.locked_until = now + _get_lockout_duration(e2.attempts)]
              ELSE e2
    IN  [fa1 EXCEPT ![identifier] = e3]

\* record_failed_attempt: the table afterwards
record_failed_attempt(fa, ip_address, username) ==
    LET identifier == _get_identifier(ip_address, username)
        fa1 == Touch(fa, identifier)
        entry == fa1[identifier]
        e1 == IF entry.first_attempt = NoTime
                 \/ now - entry.first_attempt > RATE_LIMIT_WINDOW_SECONDS
              THEN [entry EXCEPT !.first_attempt = now, !.attempts = 0]
              ELSE entry
        e2 == [e1 EXCEPT !.attempts = @ + 1]
        e3 == IF e2.attempts >= RATE_LIMIT_MAX_ATTEMPTS
              THEN [e2 EXCEPT !.locked_until = now + _get_lockout_duration(e2.attempts)]
              ELSE e2
    IN  [fa1 EXCEPT ![identifier] = e3]

\* reset_attempts that leaves the entry as it is
reset_attempts_kept(fa, ip_address, username) ==
    [fa |-> fa, ret |-> _get_identifier(ip_address, username) \in DOMAIN fa]

\* reset_attempts: the table afterwards and the value returned
reset_attempts(fa, ip_address, username) ==
    LET identifier == _get_identifier(ip_address, username) IN
    IF identifier \in DOMAIN fa
    THEN [fa |-> [fa EXCEPT ![identifier] = DefaultEntry], ret |-> TRUE]
    ELSE [fa |-> fa, ret |-> FALSE]

\* reset_all: the table afterwards and the count returned
reset_all(fa) == [fa |-> << >>, ret |-> Cardinality(DOMAIN fa)]

(* History of the limiter's calls, kept beside the table: for each          *)
(* identifier the failures recorded in a row within one window (n, the time *)
(* of the first and of the last), whether the last call was a reset, the    *)
(* failures recorded since the last reset (since) and ever (fails).         *)

NoStreak ==
    [n |-> 0, first |-> NoTime, last |-> NoTime, reset |-> FALSE, since |-> 0, fails |-> 0]

\* a count of failures, kept up to the maximum of the limiter
Counted1(k) == IF k < RATE_LIMIT_MAX_ATTEMPTS THEN k + 1 ELSE k

StreakOf(st, identifier) == IF identifier \in DOMAIN st THEN st[identifier] ELSE NoStreak

SetStreak(st, identifier, v) ==
    [k \in DOMAIN st \cup {identifier} |-> IF k = identifier THEN v ELSE st[k]]

\* a call of check_rate_limit: a full streak is answered once
Checked(st, identifier) ==
    IF StreakOf(st, identifier).n >= RATE_LIMIT_MAX_ATTEMPTS
    THEN SetStreak(st, identifier,
                   [NoStreak EXCEPT !.since = StreakOf(st, identifier).since,
                                    !.fails = StreakOf(st, identifier).fails])
    ELSE st

\* a call of record_failed_attempt
Failed(st, identifier) ==
    LET s == StreakOf(st, identifier)
        fresh == s.n = 0 \/ now - s.first > RATE_LIMIT_WINDOW_SECONDS
    IN  SetStreak(st, identifier,
                  [n |-> IF fresh THEN 1 ELSE s.n + 1,
                   first |-> IF fresh THEN now ELSE s.first,
                   last |-> now, reset |-> FALSE,
                   since |-> Counted1(s.since), fails |-> Counted1(s.fails)])

\* a call of reset_attempts
Cleared(st, identifier) ==
    SetStreak(st, identifier,
              [NoStreak EXCEPT !.reset = TRUE, !.fails = StreakOf(st, identifier).fails])

\* a call of reset_all
ClearedAll(st) ==
    [k \in DOMAIN st |-> [NoStreak EXCEPT !.reset = TRUE, !.fails = st[k].fails]]

-----------------------------------------------------------------------------
(* Requests and responses *)

\* no token in a response
NoToken == [username |-> << >>, type |-> "", iat |-> 0, exp |-> 0, sig |-> "none"]

\* the status code each exception class carries
StatusOf(err) ==
    CASE err = "ValidationError" -> HTTP_BAD_REQUEST
      [] err = "AuthenticationError" -> HTTP_UNAUTHORIZED
      [] err = "NotFoundError" -> HTTP_NOT_FOUND

Idle ==
    [op |-> "none", ip |-> << >>, username |-> NoUsername, password |-> NoPw,
     hdr |-> NoHeader,
     revoke_all |-> FALSE, status |-> 0, err |-> "", msg |-> "", reached |-> FALSE,
     user |-> << >>, access |-> NoToken, refresh |-> NoToken, revoked |-> -1,
     retry_after |-> NoTime, ret |-> FALSE]

\* a response that carries an exception
Raise(req, err, msg) == [req EXCEPT !.status = StatusOf(err), !.err = err, !.msg = msg]

\* raise RateLimitError(error_msg, retry_after=retry_after): the class is not
\* in exceptions.py; by the specification it maps to 429 and carries the
\* retry-after seconds
RaiseRateLimit(req, msg, retry_after) ==
    [req EXCEPT !.status = HTTP_TOO_MANY_REQUESTS, !.err = "RateLimitError",
                !.msg = msg, !.retry_after = retry_after]

-----------------------------------------------------------------------------
(* Reading Service (services/reading_service.py).  A datetime is an instant  *)
(* t (seconds) with a UTC offset off (seconds, whole minutes); an ISO string *)
(* also says whether it is written with the suffix Z.  A temperature is a    *)
(* whole number of hundredths of a degree.                                   *)

Iso(t, off, z) == [t |-> t, off |-> off, z |-> z]

\* datetime.fromisoformat(s.replace('Z', '+00:00')), made UTC when naive
FromIso(s) == [t |-> s.t, off |-> s.off]

\* dt.isoformat().replace('+00:00', 'Z')
ToIsoZ(dt) == Iso(dt.t, dt.off, dt.off = 0)

\* dt.replace(second=0, microsecond=0): the wall-clock fields are truncated
MinuteKey(dt) == [t |-> dt.t - ((dt.t + dt.off) % 60), off |-> dt.off]

Reading(tempC, recordedAt) == [tempC |-> tempC, recordedAt |-> recordedAt]

\* minute_groups[minute_key].append(tempC): a dict in insertion order; two
\* aware datetimes are the same key when they are the same instant, and the
\* key first inserted is the one kept
RECURSIVE GroupByMinute(_, _)
GroupByMinute(readings, groups) ==
    IF readings = << >> THEN groups
    ELSE LET r == Head(readings)
             key == MinuteKey(FromIso(r.recordedAt))
             hit == {i \in DOMAIN groups : groups[i].key.t = key.t}
         IN  GroupByMinute(Tail(readings),
                 IF hit = {}
                 THEN Append(groups, [key |-> key, temps |-> <<r.tempC>>])
                 ELSE [groups EXCEPT ![CHOOSE i \in hit : TRUE].temps =
                                        Append(@, r.tempC)])

\* sorted(minute_groups.items()): ascending by instant
RECURSIVE SortedGroups(_)
SortedGroups(groups) ==
    IF groups = << >> THEN << >>
    ELSE LET i == CHOOSE i \in DOMAIN groups :
                      \A j \in DOMAIN groups : groups[i].key.t <= groups[j].key.t
         IN  <<groups[i]>> \o
             SortedGroups([k \in 1..(Len(groups) - 1) |->
                              IF k < i THEN groups[k] ELSE groups[k + 1]])

RECURSIVE Sum(_)
Sum(temps) == IF temps = << >> THEN 0 ELSE Head(temps) + Sum(Tail(temps))

\* rounding replaced by truncation
round2_down(sum, n) == sum \div n

\* round(sum / n, 2) in hundredths: to the nearest, an exact half to the even
\* neighbour
round2(sum, n) ==
    LET q == sum \div n
        r == sum % n
    IN  IF 2 * r < n THEN q
        ELSE IF 2 * r > n THEN q + 1
        ELSE IF q % 2 = 0 THEN q ELSE q + 1

\* ReadingService._average_by_minute
_average_by_minute(readings) ==
    IF readings = << >> THEN << >>
    ELSE LET groups == SortedGroups(GroupByMinute(readings, << >>)) IN
         [i \in DOMAIN groups |->
             Reading(round2(Sum(groups[i].temps), Len(groups[i].temps)),
                     ToIsoZ(groups[i].key))]

\* the service has not been called
NoCall == [op |-> "none", args |-> << >>, queried |-> FALSE, raw |-> << >>,
           fault |-> FALSE, result |-> << >>, error |-> "", field |-> "",
           written |-> {}]

\* a query parameter that was not sent (the route passes ''), and one that
\* datetime.fromisoformat rejects
Missing == [text |-> ""]
Garbage == [text |-> "yesterday"]

\* datetime.fromisoformat accepts the string
Parses(s) == "t" \in DOMAIN s

\* start_datetime_utc >= end_datetime_utc
StartNotBeforeEnd(start, end) == start.t >= end.t

\* start_datetime_utc > end_datetime_utc: aware datetimes compare as instants
StartAfterEnd(start, end) == start.t > end.t

\* ReadingStorage.read_readings(start, end): the loaded readings recorded
\* from start to end, both ends included
StoreReadReadings(readings, start, end) ==
    LET InRange(r) == /\ start.t <= FromIso(r.recordedAt).t
                      /\ FromIso(r.recordedAt).t <= end.t
    IN  SelectSeq(readings, InRange)

\* raise ValidationError(..., field=...)
Invalid(call, field) == [call EXCEPT !.error = "ValidationError", !.field = field]

\* ReadingService.get_readings; fault tells whether the store raises when it
\* is queried
get_readings(start_str, end_str, fault) ==
    LET call == [NoCall EXCEPT !.op = "get_readings", !.args = <<start_str, end_str>>]
    IN  IF start_str = Missing THEN Invalid(call, "startDateTime")
        ELSE IF end_str = Missing THEN Invalid(call, "endDateTime")
        ELSE IF ~Parses(start_str) THEN Invalid(call, "startDateTime")
        ELSE IF ~Parses(end_str) THEN Invalid(call, "endDateTime")
        ELSE IF StartAfterEnd(FromIso(start_str), FromIso(end_str))
             THEN Invalid(call, "startDateTime")
        ELSE IF fault
             THEN [call EXCEPT !.queried = TRUE, !.fault = TRUE, !.error = "StorageFault"]
        ELSE LET raw == StoreReadReadings(store, FromIso(start_str), FromIso(end_str))
             IN  [call EXCEPT !.queried = TRUE, !.raw = raw,
                              !.result = _average_by_minute(raw)]

(* app.py: the readings API over one CSV file per day.  A value is an      *)
(* integer number of tenths of a millionth of a degree, so that the six    *)
(* decimals the file keeps are a real loss.                                 *)

\* schemas.py: valueC: float = Field(ge=-55.0, le=125.0)
MinValueC == -550000000
MaxValueC == 1250000000

\* timedelta(days=1), in seconds
Day == 86400

\* iso_to_dt: the instant and the offset the string was written with
iso_to_dt(value) == [t |-> value.t, off |-> value.off]

\* dt_to_iso_utc: the same instant written in UTC with a trailing Z
dt_to_iso_utc(dt) == Iso(dt.t, 0, TRUE)

\* day.date(): the calendar date of a datetime in its own offset, which
\* csv_filename_for_date turns into the file's name
csv_filename_for_date(dt) == (dt.t + dt.off) \div Day

\* f"{valueC:.6f}" read back by float(): the value rounded to six decimals
Format6(valueC) == ((valueC + 5) \div 10) * 10

\* TemperatureReadingOut
ReadingOut(id, room, valueC, recordedAt) ==
    [id |-> id, room |-> room, valueC |-> valueC, recordedAt |-> recordedAt]

\* write_reading: one row appended to the file of the reading's date
write_reading(files, reading) ==
    LET path == csv_filename_for_date(iso_to_dt(reading.recordedAt))
        row == [reading EXCEPT !.valueC = Format6(reading.valueC)]
    IN  [p \in DOMAIN files \cup {path} |->
            IF p = path
            THEN (IF p \in DOMAIN files THEN files[p] ELSE << >>) \o <<row>>
            ELSE files[p]]

\* row["recordedAt"] is there and iso_to_dt parses it (the try of read_readings)
StampParses(row) == "recordedAt" \in DOMAIN row /\ Parses(row.recordedAt)

\* float(row["valueC"]) succeeds; a row whose value column holds anything but
\* a number carries that text as valueText
ValueParses(row) == "valueC" \in DOMAIN row

\* float(row["valueC"]) raises ValueError, outside every try
ValueErrorRaised == [raise |-> "ValueError"]

\* the rows of one file that read_readings keeps, as items
MatchingRows(files, path, from_dt, to_dt, rooms) ==
    IF path \notin DOMAIN files THEN << >>
    ELSE LET Keep(row) ==
                 /\ StampParses(row)
                 /\ ~(iso_to_dt(row.recordedAt).t < from_dt.t)
                 /\ ~(iso_to_dt(row.recordedAt).t > to_dt.t)
                 /\ (rooms # {} => row.room \in rooms)
             kept == SelectSeq(files[path], Keep)
         IN  [i \in DOMAIN kept |->
                 IF ValueParses(kept[i])
                 THEN ReadingOut(kept[i].id, kept[i].room, kept[i].valueC,
                                 dt_to_iso_utc(iso_to_dt(kept[i].recordedAt)))
                 ELSE ValueErrorRaised]

\* daterange_inclusive walked by read_readings, from the day cur to the day last
RECURSIVE ScanDays(_, _, _, _, _, _)
ScanDays(files, cur, last, from_dt, to_dt, rooms) ==
    IF cur > last THEN << >>
    ELSE MatchingRows(files, cur, from_dt, to_dt, rooms)
             \o ScanDays(files, cur + 1, last, from_dt, to_dt, rooms)

\* the scan reaches a row whose value does not parse before it has
\* collected limit items
Raises(all, limit) ==
    \E p \in DOMAIN all :
        /\ all[p] = ValueErrorRaised
        /\ \A q \in 1..(p - 1) : all[q] # ValueErrorRaised
        /\ (p = 1 \/ p - 1 < limit)

\* read_readings raises instead of returning
read_readings_raises(files, from_dt, to_dt, rooms, limit) ==
    Raises(ScanDays(files, csv_filename_for_date(from_dt),
                    csv_filename_for_date(to_dt), from_dt, to_dt, rooms), limit)

\* read_readings: the scan stops as soon as limit items are collected
read_readings(files, from_dt, to_dt, rooms, limit) ==
    LET all == ScanDays(files, csv_filename_for_date(from_dt),
                        csv_filename_for_date(to_dt), from_dt, to_dt, rooms)
    IN  IF Len(all) = 0 \/ Raises(all, limit) THEN << >>
        ELSE IF limit < 1 THEN SubSeq(all, 1, 1)
        ELSE IF Len(all) > limit THEN SubSeq(all, 1, limit)
        ELSE all

\* every row of every file
AllRows(files) == UNION {{files[p][i] : i \in DOMAIN files[p]} : p \in DOMAIN files}

\* the rows in the day files and in temp_data.csv together
StoredRows == Cardinality(AllRows(csv)) + Len(temp_data)

(* The two serial ingest scripts.  A float is a number or NaN; every        *)
(* comparison with NaN is false.                                            *)

Num(v) == [nan |-> FALSE, v |-> v]
NaN == [nan |-> TRUE, v |-> 0]
FloatLt(a, b) == ~a.nan /\ ~b.nan /\ a.v < b.v
FloatGt(a, b) == ~a.nan /\ ~b.nan /\ a.v > b.v

\* config.py: TEMP_MIN_CELSIUS, TEMP_MAX_CELSIUS
TEMP_MIN_CELSIUS == -550000000
TEMP_MAX_CELSIUS == 1250000000

\* a line read from the serial port: a number, "nan", or text float() rejects
NumLine(v) == [kind |-> "float", val |-> Num(v)]
NanLine == [kind |-> "float", val |-> NaN]
TextLine == [kind |-> "text", val |-> NaN]

\* backgroundJob/serial_ingest.py main: tempC < min or tempC > max
OutsideRange(tempC) ==
    FloatLt(tempC, Num(TEMP_MIN_CELSIUS)) \/ FloatGt(tempC, Num(TEMP_MAX_CELSIUS))

\* serial_ingest.py write_row: a row with a fresh id appended to the file of
\* the date of recorded_at
write_row(files, id, room, value_c, recorded_at) ==
    write_reading(files, ReadingOut(id, room, value_c, recorded_at))

\* no lock file; holders are the processes whose _acquire_file_lock returned
\* True and that have not called _release_file_lock since
NoLockFile == [exists |-> FALSE, mtime |-> 0, holders |-> {}]

\* the command queue file is empty, the loop holds no batch, nothing was sent
NoQueue ==
    [file |-> << >>, batch |-> << >>, sent |-> << >>, queued |-> {}, clock |-> 0,
     lock |-> NoLockFile]

\* _acquire_file_lock gives up after timeout (1.0 s, one tick here) and takes
\* a lock file older than 5.0 s for stale (more than StaleAfter ticks here)
LockTimeout == 1
StaleAfter == 1

(* The Arduino command queue (services/serial_manager.py) and the poll loop *)
(* of the background job.  Every call holds the file lock from its read to  *)
(* its write, so a call is one step.                                        *)

\* queue_command: the entry appended to the queue file
queue_command(file, command, timestamp) ==
    Append(file, [command |-> command, timestamp |-> timestamp, status |-> "pending"])

\* get_pending_commands
get_pending_commands(file) ==
    LET IsPending(cmd) == cmd.status = "pending" IN SelectSeq(file, IsPending)

\* mark_command_processed: the first entry with that timestamp is marked,
\* then only the processed entries are kept and written back
mark_command_processed(file, command_timestamp) ==
    LET hits == {i \in DOMAIN file : file[i].timestamp = command_timestamp}
        first == IF hits = {} THEN 0
                 ELSE CHOOSE i \in hits : \A j \in hits : i <= j
        marked == [i \in DOMAIN file |->
                      IF i = first THEN [file[i] EXCEPT !.status = "processed"]
                      ELSE file[i]]
        IsProcessed(cmd) == cmd.status = "processed"
    IN  SelectSeq(marked, IsProcessed)

\* the request threads that handle signups, and one that has no request
Threads == 1..NumThreads

IdleThread ==
    [pc |-> "idle", ip |-> << >>, username |-> NoUsername, password |-> NoPw,
     created |-> FALSE]

\* the state after start-up, the credential file holding us
InitAuth(us) ==
    /\ now = StartTime
    /\ users = us
    /\ failed_attempts = << >>
    /\ active_refresh_tokens = << >>
    /\ blacklisted_tokens = {}
    /\ issued = {}
    /\ rotated = {}
    /\ voided = {}
    /\ killed = {}
    /\ failedFor = {}
    /\ streak = << >>
    /\ resp = Idle
    /\ threads = [p \in Threads |-> IdleThread]

\* the state after start-up, no reading loaded and no readings file written
InitWith(us) ==
    /\ InitAuth(us)
    /\ rsvc = NoCall
    /\ store = << >>
    /\ csv = << >>
    /\ temp_data = << >>
    /\ cmdq = NoQueue

\* the clock advances by one second
Tick ==
    /\ now < StartTime + MaxTicks
    /\ now' = now + 1
    /\ resp' = Idle
    /\ UNCHANGED <<users, failed_attempts, active_refresh_tokens, blacklisted_tokens,
                   issued, rotated, voided, killed, failedFor, streak,
                   rest>>

-----------------------------------------------------------------------------
(* Auth Service (routes/auth.py) *)

\* the tail of signup and login: issue both tokens and activate the refresh
\* token
IssueTokens(req, username, status, msg) ==
    LET access_token == generate_access_token(username)
        refresh_token == generate_refresh_token(username)
    IN  /\ active_refresh_tokens' =
               add_refresh_token(active_refresh_tokens, username, refresh_token)
        /\ issued' = issued \cup {access_token, refresh_token}
        /\ resp' = [req EXCEPT !.status = status, !.msg = msg, !.reached = TRUE,
                                !.access = access_token, !.refresh = refresh_token]

\* a failure raised without being recorded
FailNotRecorded(req, fa, ip_address, username, err, msg) ==
    /\ failed_attempts' = fa
    /\ resp' = Raise(req, err, msg)
    /\ UNCHANGED <<users, active_refresh_tokens, issued, failedFor, streak>>

\* a failure that is recorded against the identifier before it is raised
FailRecorded(req, fa, ip_address, username, err, msg) ==
    /\ failed_attempts' = record_failed_attempt(fa, ip_address, username)
    /\ failedFor' = failedFor \cup {<<ip_address, username>>}
    /\ streak' = Failed(Checked(streak, _get_identifier(ip_address, username)),
                        _get_identifier(ip_address, username))
    /\ resp' = Raise(req, err, msg)
    /\ UNCHANGED <<users, active_refresh_tokens, issued>>

\* the signup request as the handler reads it
SignupRequest(ip_address, username, password) ==
    [Idle EXCEPT !.op = "signup", !.ip = ip_address, !.username = username,
                 !.password = password]

\* signup raises before anything is persisted: the limiter, a validator or
\* create_user's own user_exists turns the request away
SignupRejected(ip_address, username, password) ==
    \/ ~check_rate_limit(failed_attempts, ip_address, NoUsername).allowed
    \/ validate_username(username) # ""
    \/ validate_password(password) # ""
    \/ user_exists(users, username)

\* signup, when it raises
SignupFails(ip_address, username, password) ==
    LET req == SignupRequest(ip_address, username, password)
        chk == check_rate_limit(failed_attempts, ip_address, NoUsername)
    IN
    IF ~chk.allowed
    THEN /\ resp' = RaiseRateLimit(req, "Too many failed attempts.", chk.retry_after)
         /\ failed_attempts' = chk.fa
         /\ streak' = Checked(streak, _get_identifier(ip_address, NoUsername))
         /\ UNCHANGED <<users, active_refresh_tokens, issued, failedFor>>
    ELSE IF validate_username(username) # ""
    THEN FailRecorded(req, chk.fa, ip_address, NoUsername,
                      "ValidationError", validate_username(username))
    ELSE IF validate_password(password) # ""
    THEN FailRecorded(req, chk.fa, ip_address, NoUsername,
                      "ValidationError", validate_password(password))
    ELSE FailRecorded(req, chk.fa, ip_address, NoUsername,
                      "ValidationError", "Username already exists")

\* signup from storage.add_user on: persist, reset the limiter, issue tokens
SignupCreates(fa, ip_address, username, password) ==
    /\ users' = add_user(users, username, HashOf(password))
    /\ failed_attempts' = reset_attempts(fa, ip_address, NoUsername).fa
    /\ streak' = Cleared(streak, _get_identifier(ip_address, NoUsername))
    /\ IssueTokens(SignupRequest(ip_address, username, password), username,
                   HTTP_CREATED, "User signed up")
    /\ UNCHANGED failedFor

\* UserStorage.add_user when the write fails: by the specification a storage
\* fault on the write path is raised to the caller and nothing is persisted
add_user_fault(us, username, hash) == us

\* a try block of signup that goes on to the tokens after the fault
signup_after_fault_issues(art, iss, username) ==
    [art |-> add_refresh_token(art, username, generate_refresh_token(username)),
     issued |-> iss \cup {generate_access_token(username),
                          generate_refresh_token(username)},
     access |-> generate_access_token(username),
     refresh |-> generate_refresh_token(username),
     status |-> HTTP_CREATED]

\* signup's try block when create_user raises an exception that is not a
\* ValidationError: the rest of the block is skipped, no except clause
\* matches, and the exception leaves the handler as a 500 response
signup_after_fault(art, iss, username) ==
    [art |-> art, issued |-> iss, access |-> NoToken, refresh |-> NoToken,
     status |-> HTTP_INTERNAL_SERVER_ERROR]

\* POST /api/signup when storage.add_user fails with a storage fault
SignupStorageFault(ip_address, username, password) ==
    LET req == SignupRequest(ip_address, username, password)
        chk == check_rate_limit(failed_attempts, ip_address, NoUsername)
        out == signup_after_fault(active_refresh_tokens, issued, username)
    IN
    /\ ~SignupRejected(ip_address, username, password)
    /\ failed_attempts' = chk.fa
    /\ streak' = Checked(streak, _get_identifier(ip_address, NoUsername))
    /\ users' = add_user_fault(users, username, HashOf(password))
    /\ active_refresh_tokens' = out.art
    /\ issued' = out.issued
    /\ resp' = [req EXCEPT !.status = out.status, !.err = "StorageFault",
                           !.msg = "Internal server error",
                           !.access = out.access, !.refresh = out.refresh]
    /\ UNCHANGED <<now, blacklisted_tokens, rotated, voided, killed, failedFor, rest>>

\* POST /api/signup, handled without another request in between
Signup(ip_address, username, password) ==
    /\ IF SignupRejected(ip_address, username, password)
       THEN SignupFails(ip_address, username, password)
       ELSE SignupCreates(check_rate_limit(failed_attempts, ip_address, NoUsername).fa,
                          ip_address, username, password)
    /\ UNCHANGED <<now, blacklisted_tokens, rotated, voided, killed,
                   rest>>

(* POST /api/signup handled by concurrent request threads.  A thread can be *)
(* suspended between create_user's user_exists and storage.add_user (the    *)
(* file read, bcrypt.hashpw and the file write release the interpreter      *)
(* lock), so the handler is two steps.                                      *)

\* thread p runs signup up to create_user's check of user_exists
SignupEnter(p, ip_address, username, password) ==
    /\ threads[p].pc = "idle"
    /\ IF SignupRejected(ip_address, username, password)
       THEN /\ SignupFails(ip_address, username, password)
            /\ threads' = [threads EXCEPT ![p] =
                              [pc |-> "done", ip |-> ip_address, username |-> username,
                               password |-> password, created |-> FALSE]]
       ELSE /\ failed_attempts' =
                   check_rate_limit(failed_attempts, ip_address, NoUsername).fa
            /\ streak' = Checked(streak, _get_identifier(ip_address, NoUsername))
            /\ threads' = [threads EXCEPT ![p] =
                              [pc |-> "create", ip |-> ip_address, username |-> username,
                               password |-> password, created |-> FALSE]]
            /\ UNCHANGED <<users, active_refresh_tokens, issued, failedFor, resp>>
    /\ UNCHANGED <<now, blacklisted_tokens, rotated, voided, killed, rsvc, store, csv,
                   temp_data, cmdq>>

\* thread p runs the rest: storage.add_user, reset_attempts, the tokens and
\* the 201 response
SignupPersist(p) ==
    /\ threads[p].pc = "create"
    /\ SignupCreates(failed_attempts, threads[p].ip, threads[p].username,
                     threads[p].password)
    /\ threads' = [threads EXCEPT ![p].pc = "done", ![p].created = TRUE]
    /\ UNCHANGED <<now, blacklisted_tokens, rotated, voided, killed, rsvc, store, csv,
                   temp_data, cmdq>>

\* thread p runs the decorator require_refresh_token of POST /api/refresh-token
RefreshGate(p, h) ==
    LET gate == require_refresh_token(h) IN
    /\ threads[p].pc = "idle"
    /\ threads' = [threads EXCEPT ![p] =
                      [pc |-> IF gate.err # "" THEN "done" ELSE "handler",
                       hdr |-> h, user |-> gate.user,
                       status |-> IF gate.err # "" THEN HTTP_UNAUTHORIZED ELSE 0,
                       access |-> NoToken, refresh |-> NoToken]]
    /\ UNCHANGED <<now, users, failed_attempts, active_refresh_tokens,
                   blacklisted_tokens, issued, rotated, voided, killed, failedFor,
                   streak, resp, rsvc, store, csv, temp_data, cmdq>>

\* thread p, past the decorator, runs the handler refresh_token
RefreshHandler(p) ==
    LET username == threads[p].user
        old_refresh_token == threads[p].hdr.tok
        new_access_token == generate_access_token(username)
        new_refresh_token == generate_refresh_token(username)
        rv == revoke_refresh_token(active_refresh_tokens, blacklisted_tokens,
                                   username, old_refresh_token)
    IN
    /\ threads[p].pc = "handler"
    /\ active_refresh_tokens' = add_refresh_token(rv.active, username, new_refresh_token)
    /\ blacklisted_tokens' = rv.blacklist
    /\ issued' = issued \cup {new_access_token, new_refresh_token}
    /\ threads' = [threads EXCEPT ![p].pc = "done", ![p].status = HTTP_OK,
                                  ![p].access = new_access_token,
                                  ![p].refresh = new_refresh_token]
    /\ UNCHANGED <<now, users, failed_attempts, rotated, voided, killed, failedFor,
                   streak, resp, rsvc, store, csv, temp_data, cmdq>>

\* POST /api/login
Login(ip_address, username, password) ==
    LET req == [Idle EXCEPT !.op = "login", !.ip = ip_address, !.username = username,
                            !.password = password]
        chk == check_rate_limit(failed_attempts, ip_address, username)
    IN
    /\ IF ~chk.allowed
       THEN /\ resp' = RaiseRateLimit(req, "Too many failed attempts.", chk.retry_after)
            /\ failed_attempts' = chk.fa
            /\ streak' = Checked(streak, _get_identifier(ip_address, username))
            /\ UNCHANGED <<users, active_refresh_tokens, issued, failedFor>>
       ELSE IF validate_username(username) # ""
       THEN FailRecorded(req, chk.fa, ip_address, username,
                         "ValidationError", validate_username(username))
       ELSE IF validate_password(password) # ""
       THEN FailRecorded(req, chk.fa, ip_address, username,
                         "ValidationError", validate_password(password))
       ELSE IF ~user_exists(users, username)
       THEN FailRecorded(req, chk.fa, ip_address, username,
                         "NotFoundError", "User not found")
       ELSE IF ~verify_password(users, username, password)
       THEN FailRecorded(req, chk.fa, ip_address, username,
                         "AuthenticationError", "Invalid password")
       ELSE /\ failed_attempts' = reset_attempts(chk.fa, ip_address, username).fa
            /\ streak' = Cleared(streak, _get_identifier(ip_address, username))
            /\ IssueTokens(req, username, HTTP_OK, "Login successful")
            /\ UNCHANGED <<users, failedFor>>
    /\ UNCHANGED <<now, blacklisted_tokens, rotated, voided, killed,
                   rest>>

\* POST /api/rate-limit/reset; key_ok: the body carries the configured
\* reset key
ResetRateLimit(ip_address, key_ok, username) ==
    LET req == [Idle EXCEPT !.op = "reset", !.ip = ip_address, !.username = username,
                            !.status = HTTP_OK, !.reached = TRUE]
    IN
    /\ IF key_ok
       THEN /\ failed_attempts' = reset_all(failed_attempts).fa
            /\ streak' = ClearedAll(streak)
            /\ resp' = [req EXCEPT !.msg = "All rate limits reset"]
       ELSE IF Truthy(username)
       THEN LET r == reset_attempts(failed_attempts, ip_address, username) IN
            /\ failed_attempts' = r.fa
            /\ streak' = Cleared(streak, _get_identifier(ip_address, username))
            /\ resp' = [req EXCEPT !.msg = IF r.ret THEN "Rate limit reset"
                                           ELSE "No rate limit found"]
       ELSE LET r == reset_attempts(failed_attempts, ip_address, NoUsername) IN
            /\ failed_attempts' = r.fa
            /\ streak' = Cleared(streak, _get_identifier(ip_address, NoUsername))
            /\ resp' = [req EXCEPT !.msg = IF r.ret THEN "Rate limit reset"
                                           ELSE "No rate limit found"]
    /\ UNCHANGED <<now, users, active_refresh_tokens, blacklisted_tokens, issued,
                   rotated, voided, killed, failedFor,
                   rest>>

\* POST /api/refresh-token, behind require_refresh_token; track: whether the
\* history of revoked tokens is kept
Refresh(h, track) ==
    LET req == [Idle EXCEPT !.op = "refresh", !.hdr = h]
        gate == require_refresh_token(h)
    IN
    /\ IF gate.err # ""
       THEN /\ resp' = Raise(req, gate.err, gate.msg)
            /\ UNCHANGED <<active_refresh_tokens, blacklisted_tokens, issued, rotated>>
       ELSE LET username == gate.user
                old_refresh_token == h.tok
                new_access_token == generate_access_token(username)
                new_refresh_token == generate_refresh_token(username)
                rv == revoke_refresh_token(active_refresh_tokens, blacklisted_tokens,
                                           username, old_refresh_token)
            IN  /\ active_refresh_tokens' =
                       add_refresh_token(rv.active, username, new_refresh_token)
                /\ blacklisted_tokens' = rv.blacklist
                /\ issued' = issued \cup {new_access_token, new_refresh_token}
                /\ rotated' = IF track THEN rotated \cup {old_refresh_token} ELSE rotated
                /\ resp' = [req EXCEPT !.status = HTTP_OK, !.msg = "Token refreshed",
                                        !.reached = TRUE, !.user = username,
                                        !.access = new_access_token,
                                        !.refresh = new_refresh_token]
    /\ UNCHANGED <<now, users, failed_attempts, voided, killed, failedFor, streak,
                   rest>>

\* logout that demands a valid access token, as a handler behind
\* require_auth would
logout_behind_gate(art, bl, h, revoke_all) ==
    LET payload == IF HasToken(h) THEN verify_token(h.tok) ELSE NoPayload IN
    IF HasToken(h) /\ payload # NoPayload /\ ~is_token_blacklisted(bl, h.tok)
       /\ payload.type = "access"
    THEN [active |-> art, blacklist |-> blacklist_token(bl, h.tok), status |-> HTTP_OK,
          msg |-> "Logged out successfully", revoked |-> -1]
    ELSE [active |-> art, blacklist |-> bl, status |-> HTTP_UNAUTHORIZED,
          msg |-> "Authentication required.", revoked |-> -1]

\* logout that revokes the user's refresh tokens whatever revoke_all says
logout_revoking_all(art, bl, h, revoke_all) ==
    LET payload == IF HasToken(h) THEN verify_token(h.tok) ELSE NoPayload
        plain == [active |-> art, blacklist |-> bl, status |-> HTTP_OK,
                  msg |-> "Logged out successfully", revoked |-> -1]
    IN  IF HasToken(h) /\ payload # NoPayload /\ ~is_token_blacklisted(bl, h.tok)
           /\ payload.type = "access" /\ payload.username # << >>
        THEN LET ra == revoke_all_user_tokens(art, blacklist_token(bl, h.tok),
                                              payload.username)
             IN  [active |-> ra.active, blacklist |-> ra.blacklist, status |-> HTTP_OK,
                  msg |-> "Logged out from all devices", revoked |-> ra.ret]
        ELSE plain

\* the body of logout: the registry afterwards and the response
logout(art, bl, h, revoke_all) ==
    LET payload == IF HasToken(h) THEN verify_token(h.tok) ELSE NoPayload
        plain == [active |-> art, blacklist |-> bl, status |-> HTTP_OK,
                  msg |-> "Logged out successfully", revoked |-> -1]
    IN  IF HasToken(h) /\ payload # NoPayload /\ ~is_token_blacklisted(bl, h.tok)
           /\ payload.type = "access" /\ payload.username # << >>
        THEN LET bl1 == blacklist_token(bl, h.tok) IN
             IF revoke_all
             THEN LET ra == revoke_all_user_tokens(art, bl1, payload.username) IN
                  [active |-> ra.active, blacklist |-> ra.blacklist, status |-> HTTP_OK,
                   msg |-> "Logged out from all devices", revoked |-> ra.ret]
             ELSE [plain EXCEPT !.blacklist = bl1]
        ELSE plain

\* a bearer token that verifies now as an access token
ValidAccess(h) ==
    /\ h.bearer
    /\ h.tok.sig = "ok"
    /\ h.tok.exp > now
    /\ h.tok.type = "access"

\* POST /api/logout
Logout(h, revoke_all) ==
    LET r == logout(active_refresh_tokens, blacklisted_tokens, h, revoke_all) IN
    /\ active_refresh_tokens' = r.active
    /\ blacklisted_tokens' = r.blacklist
    /\ voided' = IF r.revoked >= 0
                 THEN voided \cup {t \in issued : t.type = "refresh"
                                                  /\ t.username = h.tok.username}
                 ELSE voided
    /\ killed' = IF ValidAccess(h) /\ h.tok \notin blacklisted_tokens
                 THEN killed \cup {h.tok} ELSE killed
    /\ resp' = [Idle EXCEPT !.op = "logout", !.hdr = h, !.revoke_all = revoke_all,
                            !.status = r.status, !.msg = r.msg, !.reached = TRUE,
                            !.revoked = r.revoked]
    /\ UNCHANGED <<now, users, failed_attempts, issued, rotated, failedFor, streak,
                   rest>>

\* a request to a handler behind require_auth (GET /api/readings): the
\* decorator either raises or sets g.current_user and calls the handler
GetReadings(h) ==
    LET req == [Idle EXCEPT !.op = "readings", !.hdr = h]
        gate == require_auth(h)
    IN
    /\ resp' = IF gate.err # "" THEN Raise(req, gate.err, gate.msg)
               ELSE [req EXCEPT !.status = HTTP_OK, !.msg = "Readings retrieved",
                                !.reached = TRUE, !.user = gate.user]
    /\ UNCHANGED <<now, users, failed_attempts, active_refresh_tokens,
                   blacklisted_tokens, issued, rotated, voided, killed, failedFor, streak,
                   rest>>

-----------------------------------------------------------------------------
(* The token flows.  Both users hold a credential when the process starts   *)
(* (the credential file persists).  Bob's client logs in, refreshes, logs   *)
(* out and calls the gated endpoint with every header it can build; amy is  *)
(* a second user logging in from the same address.                          *)

Client == Bob
Bystander == amy

Init ==
    InitWith(add_user(add_user(<< >>, Client, HashOf(GoodPw)),
                      Bystander, HashOf(GoodPw)))

\* the Authorization headers the client can send: none, garbage, a token
\* the service has issued to it, or such a token with its signature altered
Headers ==
    LET mine == {t \in issued : t.username = Client} IN
    {NoHeader, Bearer(Malformed)}
        \cup {Bearer(t) : t \in mine}
        \cup {Bearer(Forged(t)) : t \in mine}

\* the client alone
Next ==
    \/ Tick
    \/ Login(Ip1, Client, GoodPw)
    \/ \E h \in Headers : Refresh(h, FALSE)
    \/ \E h \in Headers, ra \in BOOLEAN : Logout(h, ra)
    \/ \E h \in Headers : GetReadings(h)

Spec == Init /\ [][Next]_vars

\* the bystander logs in at most this many times
MaxBystanderLogins == 1

BystanderLogin ==
    /\ Cardinality(ActiveOf(active_refresh_tokens, Bystander)) < MaxBystanderLogins
    /\ Login(Ip1, Bystander, GoodPw)

\* the client and the bystander
NextPair ==
    \/ Tick
    \/ Login(Ip1, Client, GoodPw)
    \/ BystanderLogin
    \/ \E h \in Headers : Refresh(h, FALSE)
    \/ \E h \in Headers, ra \in BOOLEAN : Logout(h, ra)
    \/ \E h \in Headers : GetReadings(h)

SpecPair == Init /\ [][NextPair]_vars

\* the client alone, with the history of revoked tokens
NextRotation ==
    \/ Tick
    \/ Login(Ip1, Client, GoodPw)
    \/ \E h \in Headers : Refresh(h, TRUE)
    \/ \E h \in Headers, ra \in BOOLEAN : Logout(h, ra)
    \/ \E h \in Headers : GetReadings(h)

SpecRotation == Init /\ [][NextRotation]_vars

\* the limiter: one address, usernames that differ in case only, the empty
\* username, right and wrong passwords
RateNames == {Bob, bob, EmptyName}

RatePasswords == {GoodPw, WrongPw}

InitRate == InitWith(add_user(<< >>, Client, HashOf(GoodPw)))

NextRate ==
    \/ Tick
    \/ \E u \in {Client, EmptyName} : Signup(Ip1, u, GoodPw)
    \/ \E u \in RateNames, pw \in RatePasswords : Login(Ip1, u, pw)
    \/ \E key_ok \in BOOLEAN, u \in {Client, NoUsername} : ResetRateLimit(Ip1, key_ok, u)

RateSpec == InitRate /\ [][NextRate]_vars

\* signups from one address: a registered name, a free name, a free name
\* with a leading blank, a name too short; two valid passwords and one too
\* short
SignupNames == {Client, bob, PaddedName, ShortName}

SignupPasswords == {GoodPw, WrongPw, ShortPw}

NextSignup ==
    \/ Tick
    \/ \E u \in SignupNames, pw \in SignupPasswords : Signup(Ip1, u, pw)

SignupSpec == InitRate /\ [][NextSignup]_vars

\* signups during which the credential file may fail to be written
NextFaultySignup ==
    \/ Tick
    \/ \E u \in SignupNames, pw \in SignupPasswords : Signup(Ip1, u, pw)
    \/ \E u \in SignupNames, pw \in SignupPasswords : SignupStorageFault(Ip1, u, pw)

FaultySignupSpec == InitRate /\ [][NextFaultySignup]_vars

\* two signups at a time, for a registered and for a free username
NextConcurrentSignup ==
    \/ Tick
    \/ \E p \in Threads, u \in {Client, bob}, pw \in {GoodPw, WrongPw} :
           SignupEnter(p, Ip1, u, pw)
    \/ \E p \in Threads : SignupPersist(p)

ConcurrentSignupSpec == InitRate /\ [][NextConcurrentSignup]_vars

\* the client logs in and sends refresh requests, handled by the threads,
\* with the refresh tokens it was given
NextConcurrentRefresh ==
    \/ Tick
    \/ Login(Ip1, Client, GoodPw)
    \/ \E p \in Threads :
           \E t \in {x \in issued : x.type = "refresh"} : RefreshGate(p, Bearer(t))
    \/ \E p \in Threads : RefreshHandler(p)

ConcurrentRefreshSpec == InitRate /\ [][NextConcurrentRefresh]_vars

(* The Rate Limiter on its own: its methods called in any order as time    *)
(* passes.  The call record keeps the table as it was before the call.      *)

LimiterCall(op, ip_address, username, allowed) ==
    [NoCall EXCEPT !.op = op, !.args = <<ip_address, username>>,
                   !.raw = <<failed_attempts, now>>, !.result = <<allowed>>]

CheckRateLimit(ip_address, username) ==
    LET chk == check_rate_limit(failed_attempts, ip_address, username) IN
    /\ failed_attempts' = chk.fa
    /\ rsvc' = LimiterCall("check_rate_limit", ip_address, username, chk.allowed)
    /\ UNCHANGED <<now, users, active_refresh_tokens, blacklisted_tokens, issued,
                   rotated, voided, killed, failedFor, streak, resp, threads, store,
                   csv, temp_data, cmdq>>

RecordFailedAttempt(ip_address, username) ==
    /\ Touch(failed_attempts, _get_identifier(ip_address, username))
           [_get_identifier(ip_address, username)].attempts < MaxRecorded
    /\ failed_attempts' = record_failed_attempt(failed_attempts, ip_address, username)
    /\ rsvc' = LimiterCall("record_failed_attempt", ip_address, username, TRUE)
    /\ UNCHANGED <<now, users, active_refresh_tokens, blacklisted_tokens, issued,
                   rotated, voided, killed, failedFor, streak, resp, threads, store,
                   csv, temp_data, cmdq>>

ResetAttempts(ip_address, username) ==
    LET r == reset_attempts(failed_attempts, ip_address, username) IN
    /\ failed_attempts' = r.fa
    /\ rsvc' = LimiterCall("reset_attempts", ip_address, username, r.ret)
    /\ UNCHANGED <<now, users, active_refresh_tokens, blacklisted_tokens, issued,
                   rotated, voided, killed, failedFor, streak, resp, threads, store,
                   csv, temp_data, cmdq>>

NextLimiter ==
    \/ Tick
    \/ \E u \in {Client, NoUsername} : CheckRateLimit(Ip1, u)
    \/ \E u \in {Client, NoUsername} : RecordFailedAttempt(Ip1, u)
    \/ \E u \in {Client, NoUsername} : ResetAttempts(Ip1, u)

LimiterSpec == InitRate /\ [][NextLimiter]_vars

\* logins from one address for a registered and for an unknown username,
\* with the right password, a wrong one and one too short
LoginPasswords == {GoodPw, WrongPw, ShortPw}

NextLogin ==
    \/ Tick
    \/ \E u \in {Client, bob}, pw \in LoginPasswords : Login(Ip1, u, pw)

LoginSpec == InitRate /\ [][NextLogin]_vars

-----------------------------------------------------------------------------
(* Minute averaging on its own: _average_by_minute applied to every short   *)
(* list of raw readings.                                                    *)

\* the longest list of raw readings
MaxReadings == 3

\* three stamps written with Z, two of them in one minute, and one written
\* with an offset of an hour that falls in the minute of the third
Stamps == {Iso(5, 0, TRUE), Iso(40, 0, TRUE), Iso(70, 0, TRUE), Iso(95, 3600, FALSE)}

\* 20.00, 22.01, 30.00 and -5.00 degrees
Temps == {2000, 2201, 3000, -500}

RawReadings == {Reading(c, s) : c \in Temps, s \in Stamps}

RawLists == UNION {[1..n -> RawReadings] : n \in 0..MaxReadings}

Average(raw) ==
    /\ rsvc = NoCall
    /\ rsvc' = [NoCall EXCEPT !.op = "average", !.raw = raw,
                               !.result = _average_by_minute(raw)]
    /\ UNCHANGED <<auth, store, csv, temp_data, cmdq>>

\* the call returns and its result is handed to the caller
Return ==
    /\ rsvc # NoCall
    /\ rsvc' = NoCall
    /\ UNCHANGED <<auth, store, csv, temp_data, cmdq>>

NextAverage ==
    \/ \E raw \in RawLists : Average(raw)
    \/ Return

AverageSpec == Init /\ [][NextAverage]_vars

-----------------------------------------------------------------------------
(* The Reading Service behind its store.  The store has loaded its readings *)
(* when the process starts; requests ask for ranges with every kind of      *)
(* bound, and the store may fail while it is queried.                       *)

\* what the store may hold at start-up, in time order
Stores ==
    { << >>,
      <<Reading(2000, Iso(5, 0, TRUE))>>,
      <<Reading(2000, Iso(5, 0, TRUE)), Reading(2201, Iso(40, 0, TRUE)),
        Reading(3000, Iso(70, 0, TRUE))>>,
      <<Reading(-500, Iso(70, 0, TRUE)), Reading(3000, Iso(95, 3600, FALSE))>> }

\* what a request may send as a bound
BoundStrings ==
    {Missing, Garbage, Iso(0, 0, TRUE), Iso(5, 0, TRUE), Iso(70, 0, FALSE),
     Iso(95, 3600, FALSE)}

InitReadings ==
    /\ InitAuth(<< >>)
    /\ rsvc = NoCall
    /\ store \in Stores
    /\ csv = << >>
    /\ temp_data = << >>
    /\ cmdq = NoQueue

GetReadingsCall(start_str, end_str, fault) ==
    /\ rsvc = NoCall
    /\ rsvc' = get_readings(start_str, end_str, fault)
    /\ UNCHANGED <<auth, store, csv, temp_data, cmdq>>

NextReadings ==
    \/ \E s \in BoundStrings, e \in BoundStrings, fault \in BOOLEAN :
           GetReadingsCall(s, e, fault)
    \/ Return

ReadingSpec == InitReadings /\ [][NextReadings]_vars

-----------------------------------------------------------------------------
(* The readings API of app.py: readings are ingested and ranges are read    *)
(* back.  Two of the stamps name one instant, half an hour before midnight  *)
(* UTC, one written with Z and one with +02:00.                             *)

\* the most rows the files hold
MaxRows == 2

AppStamps ==
    {Iso(600, 0, TRUE), Iso(84600, 0, TRUE), Iso(84600, 7200, FALSE),
     Iso(87000, 0, TRUE)}

\* 21.123456, 21.1234567 and 125.0000001 degrees
AppValues == {211234560, 211234567, 1250000001}

Rooms == {"kitchen", "attic"}

\* no room filter, or the attic only
RoomFilters == {{}, {"attic"}}

Limits == {1, 1000}

\* POST /api/reading
IngestReading(room, valueC, recordedAt) ==
    LET call == [NoCall EXCEPT !.op = "ingest", !.args = <<room, valueC, recordedAt>>]
        out == ReadingOut(Cardinality(AllRows(csv)) + 1, room, valueC, recordedAt)
    IN
    /\ StoredRows < MaxRows
    /\ IF valueC < MinValueC \/ valueC > MaxValueC
       THEN /\ rsvc' = [call EXCEPT !.error = "Validation failed"]
            /\ csv' = csv
       ELSE /\ rsvc' = [call EXCEPT !.written = {out}]
            /\ csv' = write_reading(csv, out)
    /\ UNCHANGED <<auth, store, temp_data, cmdq>>

\* read_readings(from_dt, to_dt, rooms, limit)
ReadReadings(from, to, rooms, limit) ==
    /\ rsvc' = [NoCall EXCEPT
                   !.op = "read_readings",
                   !.args = <<from, to, rooms, limit>>,
                   !.written = IF rsvc.op = "ingest" THEN rsvc.written ELSE {},
                   !.error = IF read_readings_raises(csv, iso_to_dt(from),
                                                     iso_to_dt(to), rooms, limit)
                             THEN "ValueError" ELSE "",
                   !.result = read_readings(csv, iso_to_dt(from), iso_to_dt(to),
                                            rooms, limit)]
    /\ UNCHANGED <<auth, store, csv, temp_data, cmdq>>

NextApp ==
    \/ \E room \in Rooms, valueC \in AppValues, recordedAt \in AppStamps :
           IngestReading(room, valueC, recordedAt)
    \/ \E from \in AppStamps, to \in AppStamps, rooms \in RoomFilters, limit \in Limits :
           ReadReadings(from, to, rooms, limit)

AppSpec == Init /\ [][NextApp]_vars

-----------------------------------------------------------------------------
(* The three write paths of the readings: POST /api/reading, the UART       *)
(* script serial_ingest.py, which write the day files, and the background   *)
(* job, which writes temp_data.csv.                                          *)

\* the two ends of the range, the values next to them, and one in between
IngestValues == {MinValueC, MaxValueC, MinValueC - 1, MaxValueC + 1, 211234560}

IngestStamps == {Iso(600, 0, TRUE), Iso(84600, 7200, FALSE)}

SerialLines == {NumLine(v) : v \in IngestValues} \cup {NanLine, TextLine}

\* serial_ingest.py main: one line "room,valueC,recordedAt" from the port
SerialIngest(room, value_c, recorded_at) ==
    LET call == [NoCall EXCEPT !.op = "serial_ingest",
                               !.args = <<room, value_c, recorded_at>>]
        id == StoredRows + 1
    IN
    /\ StoredRows < MaxRows
    /\ rsvc' = [call EXCEPT !.written = {ReadingOut(id, room, value_c, recorded_at)}]
    /\ csv' = write_row(csv, id, room, value_c, recorded_at)
    /\ UNCHANGED <<auth, store, temp_data, cmdq>>

\* backgroundJob/serial_ingest.py main: one line holding a temperature
BackgroundIngest(line) ==
    LET call == [NoCall EXCEPT !.op = "background_ingest", !.args = <<line>>]
        row == [recordedAt |-> Iso(now, 0, TRUE), tempC |-> line.val]
    IN
    /\ StoredRows < MaxRows
    /\ IF line.kind # "float"
       THEN /\ rsvc' = [call EXCEPT !.error = "Invalid temperature value"]
            /\ temp_data' = temp_data
       ELSE IF OutsideRange(line.val)
       THEN /\ rsvc' = [call EXCEPT !.error = "outside valid range"]
            /\ temp_data' = temp_data
       ELSE /\ rsvc' = [call EXCEPT !.written = {row}]
            /\ temp_data' = Append(temp_data, row)
    /\ UNCHANGED <<auth, store, csv, cmdq>>

NextIngest ==
    \/ \E valueC \in IngestValues, recordedAt \in IngestStamps :
           IngestReading("kitchen", valueC, recordedAt)
    \/ \E value_c \in IngestValues, recorded_at \in IngestStamps :
           SerialIngest("kitchen", value_c, recorded_at)
    \/ \E line \in SerialLines : BackgroundIngest(line)

IngestSpec == Init /\ [][NextIngest]_vars

-----------------------------------------------------------------------------
(* Queries over a day file that holds a damaged row between two sound ones: *)
(* a row cut off after the room, a row with a timestamp that does not       *)
(* parse, or a row with a value that does not parse.                        *)

SoundRow(id, t) == ReadingOut(id, "kitchen", 211234560, Iso(t, 0, TRUE))

DamagedRows ==
    { [id |-> 2, room |-> "kitchen"],
      ReadingOut(2, "kitchen", 211234560, Garbage),
      [id |-> 2, room |-> "kitchen", valueText |-> "21.5x",
       recordedAt |-> Iso(600, 0, TRUE)] }

DamagedFiles ==
    {[p \in {0} |-> <<SoundRow(1, 600), row, SoundRow(3, 84600)>>] : row \in DamagedRows}
        \cup {[p \in {0} |-> <<SoundRow(1, 600), SoundRow(3, 84600)>>]}

InitDamaged ==
    /\ InitAuth(<< >>)
    /\ rsvc = NoCall
    /\ store = << >>
    /\ csv \in DamagedFiles
    /\ temp_data = << >>
    /\ cmdq = NoQueue

\* bounds written in UTC, on the day of the file and on the next
DamagedStamps == {Iso(0, 0, TRUE), Iso(600, 0, TRUE), Iso(84600, 0, TRUE), Iso(87000, 0, TRUE)}

NextDamaged ==
    \E from \in DamagedStamps, to \in DamagedStamps, rooms \in RoomFilters, limit \in Limits :
        ReadReadings(from, to, rooms, limit)

DamagedSpec == InitDamaged /\ [][NextDamaged]_vars

-----------------------------------------------------------------------------
(* The command queue between the API, which queues commands, and the poll   *)
(* loop of the background job, which fetches the pending ones, sends each   *)
(* to the device and marks it processed.                                     *)

\* the most commands the API queues
MaxCommands == 3

Commands == {"START", "STOP"}

\* POST of a command: SerialPortManager.queue_command
QueueCommand(command) ==
    /\ cmdq.clock < MaxCommands
    /\ cmdq' = [cmdq EXCEPT !.clock = @ + 1,
                            !.file = queue_command(@, command, cmdq.clock + 1),
                            !.queued = @ \cup {cmdq.clock + 1}]
    /\ UNCHANGED <<auth, rsvc, store, csv, temp_data>>

\* the poll loop fetches the pending commands
PollCommands ==
    /\ cmdq.batch = << >>
    /\ cmdq' = [cmdq EXCEPT !.batch = get_pending_commands(cmdq.file)]
    /\ UNCHANGED <<auth, rsvc, store, csv, temp_data>>

\* the poll loop sends the next command of its batch and marks it processed
SendCommand ==
    /\ cmdq.batch # << >>
    /\ cmdq' = [cmdq EXCEPT
                   !.sent = Append(@, Head(cmdq.batch).timestamp),
                   !.file = mark_command_processed(@, Head(cmdq.batch).timestamp),
                   !.batch = Tail(@)]
    /\ UNCHANGED <<auth, rsvc, store, csv, temp_data>>

NextCommands ==
    \/ \E command \in Commands : QueueCommand(command)
    \/ PollCommands
    \/ SendCommand

CommandSpec == Init /\ [][NextCommands]_vars

(* The file lock of the command queue.  The API process and the background  *)
(* job each have their own SerialPortManager, so self._lock does not order  *)
(* them; each process runs _acquire_file_lock, the body of its operation    *)
(* and _release_file_lock step by step.  A process may also stop for good   *)
(* inside the body, holding the lock.                                       *)

QueueOps == {"queue_command", "get_pending_commands", "mark_command_processed"}

LockFrame ==
    UNCHANGED <<now, users, failed_attempts, active_refresh_tokens, blacklisted_tokens,
                issued, rotated, voided, killed, failedFor, streak, resp, rsvc, store,
                csv, temp_data>>

\* the processes inside queue_command
Queueing ==
    {q \in Threads : /\ "op" \in DOMAIN threads[q]
                     /\ threads[q].op = "queue_command"
                     /\ threads[q].pc \notin {"idle", "done", "stuck"}}

\* process p calls an operation: start_time = time.time()
LockEnter(p, op) ==
    /\ threads[p].pc = "idle"
    /\ now < StartTime + MaxTicks
    /\ op = "queue_command" => cmdq.clock + Cardinality(Queueing) < MaxCommands
    /\ threads' = [threads EXCEPT ![p] =
           [pc |-> "loop", op |-> op, start_time |-> now, ret |-> "",
            wrote |-> FALSE, broke |-> FALSE, removed_held |-> FALSE,
            blocked |-> \E q \in Threads : threads[q].pc = "stuck"]]
    /\ UNCHANGED cmdq
    /\ LockFrame

\* while time.time() - start_time < timeout; after it _acquire_file_lock
\* returns False and the operation returns its failure value
LockLoop(p) ==
    /\ threads[p].pc = "loop"
    /\ threads' = IF now - threads[p].start_time < LockTimeout
                  THEN [threads EXCEPT ![p].pc = "exists"]
                  ELSE [threads EXCEPT ![p].pc = "done", ![p].ret = "failed"]
    /\ UNCHANGED cmdq
    /\ LockFrame

\* if not self._lock_file.exists() ... elif the file is stale ...; otherwise
\* time.sleep(0.1) and the loop is taken again
LockExists(p) ==
    /\ threads[p].pc = "exists"
    /\ threads' = [threads EXCEPT ![p].pc =
           IF ~cmdq.lock.exists THEN "touch"
           ELSE IF now - cmdq.lock.mtime > StaleAfter THEN "unlink"
           ELSE "loop"]
    /\ UNCHANGED cmdq
    /\ LockFrame

\* self._lock_file.unlink() of a stale lock file; OSError when it is gone,
\* then time.sleep(0.1) and the loop is taken again
LockUnlink(p) ==
    /\ threads[p].pc = "unlink"
    /\ IF cmdq.lock.exists
       THEN /\ cmdq' = [cmdq EXCEPT !.lock.exists = FALSE]
            /\ threads' = [threads EXCEPT ![p].pc = "touch",
                              ![p].broke = cmdq.lock.holders \ {p} # {}]
       ELSE /\ threads' = [threads EXCEPT ![p].pc = "loop"]
            /\ UNCHANGED cmdq
    /\ LockFrame

\* self._lock_file.touch(); return True
LockTouch(p) ==
    /\ threads[p].pc = "touch"
    /\ cmdq' = [cmdq EXCEPT !.lock = [exists |-> TRUE, mtime |-> now,
                                      holders |-> cmdq.lock.holders \cup {p}]]
    /\ threads' = [threads EXCEPT ![p].pc = "body"]
    /\ LockFrame

\* the body of the operation, between acquiring and releasing
LockBody(p) ==
    /\ threads[p].pc = "body"
    /\ \/ /\ threads[p].op = "queue_command"
          /\ cmdq' = [cmdq EXCEPT !.clock = @ + 1,
                                  !.file = queue_command(@, "START", cmdq.clock + 1),
                                  !.queued = @ \cup {cmdq.clock + 1}]
          /\ threads' = [threads EXCEPT ![p].pc = "release", ![p].wrote = TRUE]
       \/ /\ threads[p].op = "get_pending_commands"
          /\ UNCHANGED cmdq
          /\ threads' = [threads EXCEPT ![p].pc = "release"]
       \/ /\ threads[p].op = "mark_command_processed"
          /\ cmdq' = [cmdq EXCEPT !.file = mark_command_processed(@, StartTime)]
          /\ threads' = [threads EXCEPT ![p].pc = "release", ![p].wrote = TRUE]
    /\ LockFrame

\* the process stops inside the body and never releases the lock
LockAbandon(p) ==
    /\ threads[p].pc = "body"
    /\ \A q \in Threads : threads[q].pc # "stuck"
    /\ threads' = [threads EXCEPT ![p].pc = "stuck"]
    /\ UNCHANGED cmdq
    /\ LockFrame

\* _release_file_lock: the lock file is removed if there is one
LockRelease(p) ==
    /\ threads[p].pc = "release"
    /\ cmdq' = [cmdq EXCEPT !.lock.exists = FALSE, !.lock.holders = @ \ {p}]
    /\ threads' = [threads EXCEPT ![p].pc = "done", ![p].ret = "ok",
                      ![p].removed_held = cmdq.lock.exists /\ cmdq.lock.holders \ {p} # {}]
    /\ LockFrame

\* the operation has returned; the process is free for the next one
LockReturn(p) ==
    /\ threads[p].pc = "done" /\ "op" \in DOMAIN threads[p]
    /\ threads' = [threads EXCEPT ![p] = IdleThread]
    /\ UNCHANGED cmdq
    /\ LockFrame

NextLock ==
    \/ Tick
    \/ \E p \in Threads, op \in QueueOps : LockEnter(p, op)
    \/ \E p \in Threads : LockLoop(p)
    \/ \E p \in Threads : LockExists(p)
    \/ \E p \in Threads : LockUnlink(p)
    \/ \E p \in Threads : LockTouch(p)
    \/ \E p \in Threads : LockBody(p)
    \/ \E p \in Threads : LockAbandon(p)
    \/ \E p \in Threads : LockRelease(p)
    \/ \E p \in Threads : LockReturn(p)

LockSpec == Init /\ [][NextLock]_vars

\* the clock advances and no process that can take a step waits forever
FairLockSpec ==
    /\ LockSpec
    /\ WF_vars(Tick)
    /\ \A p \in Threads :
           WF_vars(LockLoop(p) \/ LockExists(p) \/ LockUnlink(p) \/ LockTouch(p)
                   \/ LockBody(p) \/ LockRelease(p))

-----------------------------------------------------------------------------
(* The Token Registry on its own: the methods of TokenStorage called with   *)
(* any user and any of a few refresh tokens.                                *)

RegUsers == {Client, Bystander}

RegTokens ==
    {JwtEncode(Client, "refresh", i, i + JWT_REFRESH_TOKEN_EXPIRES_IN) :
        i \in StartTime .. StartTime + MaxTicks - 1}
    \cup {JwtEncode(Bystander, "refresh", StartTime,
                    StartTime + JWT_REFRESH_TOKEN_EXPIRES_IN)}

\* a call of a TokenStorage method and what it returned
Call(op, username, token, ret, count) ==
    [Idle EXCEPT !.op = op, !.user = username, !.refresh = token, !.ret = ret,
                 !.revoked = count, !.reached = TRUE]

RegistryFrame ==
    UNCHANGED <<now, users, failed_attempts, issued, rotated, voided, killed, failedFor, streak,
                   rest>>

AddRefreshToken(username, token) ==
    /\ active_refresh_tokens' = add_refresh_token(active_refresh_tokens, username, token)
    /\ resp' = Call("add_refresh_token", username, token, FALSE, -1)
    /\ UNCHANGED blacklisted_tokens
    /\ RegistryFrame

RevokeRefreshToken(username, token) ==
    LET rv == revoke_refresh_token(active_refresh_tokens, blacklisted_tokens,
                                   username, token)
    IN  /\ active_refresh_tokens' = rv.active
        /\ blacklisted_tokens' = rv.blacklist
        /\ resp' = Call("revoke_refresh_token", username, token, rv.ret, -1)
        /\ RegistryFrame

RevokeAllUserTokens(username) ==
    LET ra == revoke_all_user_tokens(active_refresh_tokens, blacklisted_tokens, username)
    IN  /\ active_refresh_tokens' = ra.active
        /\ blacklisted_tokens' = ra.blacklist
        /\ resp' = Call("revoke_all_user_tokens", username, NoToken, FALSE, ra.ret)
        /\ RegistryFrame

BlacklistToken(token) ==
    /\ blacklisted_tokens' = blacklist_token(blacklisted_tokens, token)
    /\ resp' = Call("blacklist_token", << >>, token, FALSE, -1)
    /\ UNCHANGED active_refresh_tokens
    /\ RegistryFrame

NextRegistry ==
    \/ \E u \in RegUsers, t \in RegTokens : AddRefreshToken(u, t)
    \/ \E u \in RegUsers, t \in RegTokens : RevokeRefreshToken(u, t)
    \/ \E u \in RegUsers : RevokeAllUserTokens(u)
    \/ \E t \in RegTokens : BlacklistToken(t)

SpecRegistry == InitWith(<< >>) /\ [][NextRegistry]_vars

(* revoke_refresh_token called by two threads at once.  The client's        *)
(* tokens are added first; then each thread runs the method line by line.   *)

\* thread p enters revoke_refresh_token: username in self.active_refresh_tokens
RevokeEnter(p, username, token) ==
    /\ threads[p].pc = "idle"
    /\ threads' = [threads EXCEPT ![p] =
           [pc |-> IF username \in DOMAIN active_refresh_tokens THEN "discard" ELSE "done",
            user |-> username, token |-> token, ret |-> FALSE,
            was_active |-> is_refresh_token_active(active_refresh_tokens, username, token),
            overlapped |-> \E q \in Threads : threads[q].pc \in {"discard", "test"}]]
    /\ UNCHANGED <<now, users, failed_attempts, active_refresh_tokens,
                   blacklisted_tokens, issued, rotated, voided, killed, failedFor,
                   streak, resp, rsvc, store, csv, temp_data, cmdq>>

\* thread p discards the token from the user's set
RevokeDiscard(p) ==
    /\ threads[p].pc = "discard"
    /\ active_refresh_tokens' =
           DiscardInPlace(active_refresh_tokens, threads[p].user, threads[p].token)
    /\ threads' = [threads EXCEPT ![p].pc = "test"]
    /\ UNCHANGED <<now, users, failed_attempts, blacklisted_tokens, issued, rotated,
                   voided, killed, failedFor, streak, resp, rsvc, store, csv,
                   temp_data, cmdq>>

\* thread p tests `removed or refresh_token in ...`, blacklists and returns
RevokeReturn(p) ==
    LET hit == DiscardResult
                   \/ is_refresh_token_active(active_refresh_tokens, threads[p].user,
                                              threads[p].token)
    IN
    /\ threads[p].pc = "test"
    /\ blacklisted_tokens' = IF hit THEN blacklisted_tokens \cup {threads[p].token}
                             ELSE blacklisted_tokens
    /\ threads' = [threads EXCEPT ![p].pc = "done", ![p].ret = hit]
    /\ UNCHANGED <<now, users, failed_attempts, active_refresh_tokens, issued, rotated,
                   voided, killed, failedFor, streak, resp, rsvc, store, csv,
                   temp_data, cmdq>>

NextConcurrentRevoke ==
    \/ \E t \in RegTokens :
           (\A p \in Threads : threads[p].pc = "idle") /\ AddRefreshToken(t.username, t)
    \/ \E p \in Threads, t \in RegTokens : RevokeEnter(p, t.username, t)
    \/ \E p \in Threads : RevokeDiscard(p)
    \/ \E p \in Threads : RevokeReturn(p)

ConcurrentRevokeSpec == InitWith(<< >>) /\ [][NextConcurrentRevoke]_vars

(* record_failed_attempt called by several threads at once.  The method     *)
(* takes no lock; entry['attempts'] += 1 reads the count and writes it back *)
(* in two steps, and a thread switch may fall between any two steps.        *)

\* thread p enters record_failed_attempt: the identifier, the entry and the
\* current time
RecordEnter(p, ip_address, username) ==
    LET identifier == _get_identifier(ip_address, username) IN
    /\ threads[p].pc = "idle"
    /\ failed_attempts' = Touch(failed_attempts, identifier)
    /\ threads' = [threads EXCEPT ![p] =
           [pc |-> "window", identifier |-> identifier, current_time |-> now,
            loaded |-> 0]]
    /\ UNCHANGED <<now, users, active_refresh_tokens, blacklisted_tokens, issued,
                   rotated, voided, killed, failedFor, streak, resp, rsvc, store,
                   csv, temp_data, cmdq>>

\* thread p starts the window when there is none or it has expired
RecordWindow(p) ==
    LET id == threads[p].identifier
        entry == failed_attempts[id]
    IN
    /\ threads[p].pc = "window"
    /\ failed_attempts' =
           IF entry.first_attempt = NoTime
              \/ threads[p].current_time - entry.first_attempt > RATE_LIMIT_WINDOW_SECONDS
           THEN [failed_attempts EXCEPT ![id].first_attempt = threads[p].current_time,
                                        ![id].attempts = 0]
           ELSE failed_attempts
    /\ threads' = [threads EXCEPT ![p].pc = "load"]
    /\ UNCHANGED <<now, users, active_refresh_tokens, blacklisted_tokens, issued,
                   rotated, voided, killed, failedFor, streak, resp, rsvc, store,
                   csv, temp_data, cmdq>>

\* thread p reads entry['attempts']
RecordLoad(p) ==
    /\ threads[p].pc = "load"
    /\ threads' = [threads EXCEPT ![p].pc = "store",
                                  ![p].loaded = failed_attempts[threads[p].identifier].attempts]
    /\ UNCHANGED <<now, users, failed_attempts, active_refresh_tokens,
                   blacklisted_tokens, issued, rotated, voided, killed, failedFor,
                   streak, resp, rsvc, store, csv, temp_data, cmdq>>

\* thread p writes the count it read, plus one
RecordStore(p) ==
    /\ threads[p].pc = "store"
    /\ failed_attempts' =
           [failed_attempts EXCEPT ![threads[p].identifier].attempts = threads[p].loaded + 1]
    /\ threads' = [threads EXCEPT ![p].pc = "lock"]
    /\ UNCHANGED <<now, users, active_refresh_tokens, blacklisted_tokens, issued,
                   rotated, voided, killed, failedFor, streak, resp, rsvc, store,
                   csv, temp_data, cmdq>>

\* thread p applies the lockout when the threshold is reached, and returns
RecordLock(p) ==
    LET id == threads[p].identifier
        entry == failed_attempts[id]
    IN
    /\ threads[p].pc = "lock"
    /\ failed_attempts' =
           IF entry.attempts >= RATE_LIMIT_MAX_ATTEMPTS
           THEN [failed_attempts EXCEPT ![id].locked_until =
                    threads[p].current_time + _get_lockout_duration(entry.attempts)]
           ELSE failed_attempts
    /\ threads' = [threads EXCEPT ![p].pc = "done"]
    /\ UNCHANGED <<now, users, active_refresh_tokens, blacklisted_tokens, issued,
                   rotated, voided, killed, failedFor, streak, resp, rsvc, store,
                   csv, temp_data, cmdq>>

NextConcurrentRecord ==
    \/ Tick
    \/ \E p \in Threads, u \in {Client, NoUsername} : RecordEnter(p, Ip1, u)
    \/ \E p \in Threads : RecordWindow(p)
    \/ \E p \in Threads : RecordLoad(p)
    \/ \E p \in Threads : RecordStore(p)
    \/ \E p \in Threads : RecordLock(p)

ConcurrentRecordSpec == InitRate /\ [][NextConcurrentRecord]_vars

(* revoke_all_user_tokens racing with the add_refresh_token of a login.     *)
(* TokenStorage takes no lock.  add_refresh_token first fetches the user's  *)
(* set (the defaultdict makes one when there is none) and then adds to that *)
(* set object; revoke_all_user_tokens copies the set, blacklists the copy   *)
(* and deletes the key, which detaches the set object from the registry.    *)

RegistryRaceFrame ==
    UNCHANGED <<now, users, failed_attempts, issued, rotated, voided, killed, failedFor,
                streak, resp, rsvc, store, csv, temp_data, cmdq>>

\* thread p, at the end of a login, generates the refresh token and fetches
\* the user's set: self.active_refresh_tokens[username]
AddFetch(p, username) ==
    /\ threads[p].pc = "idle"
    /\ active_refresh_tokens' =
           [k \in DOMAIN active_refresh_tokens \cup {username} |->
               ActiveOf(active_refresh_tokens, k)]
    /\ threads' = [threads EXCEPT ![p] =
           [pc |-> "add", call |-> "add_refresh_token", user |-> username,
            token |-> generate_refresh_token(username), detached |-> FALSE]]
    /\ UNCHANGED blacklisted_tokens
    /\ RegistryRaceFrame

\* thread p adds the token to the set it fetched, which a revoke_all may
\* have detached from the registry since
AddStore(p) ==
    /\ threads[p].pc = "add"
    /\ active_refresh_tokens' =
           IF threads[p].detached THEN active_refresh_tokens
           ELSE add_refresh_token(active_refresh_tokens, threads[p].user, threads[p].token)
    /\ threads' = [threads EXCEPT ![p].pc = "done"]
    /\ UNCHANGED blacklisted_tokens
    /\ RegistryRaceFrame

\* thread p enters revoke_all_user_tokens: if username in
\* self.active_refresh_tokens
RevokeAllEnter(p, username) ==
    /\ threads[p].pc = "idle"
    /\ threads' = [threads EXCEPT ![p] =
           [pc |-> IF username \in DOMAIN active_refresh_tokens THEN "copy" ELSE "done",
            call |-> "revoke_all_user_tokens", user |-> username, tokens |-> {},
            removed |-> {}, error |-> ""]]
    /\ UNCHANGED <<active_refresh_tokens, blacklisted_tokens>>
    /\ RegistryRaceFrame

\* tokens = self.active_refresh_tokens[username].copy()
RevokeAllCopy(p) ==
    /\ threads[p].pc = "copy"
    /\ active_refresh_tokens' =
           [k \in DOMAIN active_refresh_tokens \cup {threads[p].user} |->
               ActiveOf(active_refresh_tokens, k)]
    /\ threads' = [threads EXCEPT ![p].pc = "update",
                      ![p].tokens = ActiveOf(active_refresh_tokens, threads[p].user)]
    /\ UNCHANGED blacklisted_tokens
    /\ RegistryRaceFrame

\* self.blacklisted_tokens.update(tokens)
RevokeAllUpdate(p) ==
    /\ threads[p].pc = "update"
    /\ blacklisted_tokens' = blacklisted_tokens \cup threads[p].tokens
    /\ threads' = [threads EXCEPT ![p].pc = "del"]
    /\ UNCHANGED active_refresh_tokens
    /\ RegistryRaceFrame

\* del self.active_refresh_tokens[username]: the set goes with whatever it
\* holds by now, and a thread that has fetched it keeps a detached set;
\* KeyError when another revoke_all has deleted the key already
RevokeAllDel(p) ==
    LET username == threads[p].user IN
    /\ threads[p].pc = "del"
    /\ IF username \in DOMAIN active_refresh_tokens
       THEN /\ active_refresh_tokens' =
                   [k \in DOMAIN active_refresh_tokens \ {username} |->
                       active_refresh_tokens[k]]
            /\ threads' = [q \in Threads |->
                   IF q = p
                   THEN [threads[p] EXCEPT !.pc = "done",
                                           !.removed = active_refresh_tokens[username]]
                   ELSE IF threads[q].pc = "add" /\ threads[q].user = username
                   THEN [threads[q] EXCEPT !.detached = TRUE]
                   ELSE threads[q]]
       ELSE /\ threads' = [threads EXCEPT ![p].pc = "done", ![p].error = "KeyError"]
            /\ UNCHANGED active_refresh_tokens
    /\ UNCHANGED blacklisted_tokens
    /\ RegistryRaceFrame

\* the thread is free for the next request
RaceReturn(p) ==
    /\ threads[p].pc = "done" /\ "call" \in DOMAIN threads[p]
    /\ threads' = [threads EXCEPT ![p] = IdleThread]
    /\ UNCHANGED <<active_refresh_tokens, blacklisted_tokens>>
    /\ RegistryRaceFrame

NextRegistryRace ==
    \/ Tick
    \/ \E p \in Threads : AddFetch(p, Client)
    \/ \E p \in Threads : AddStore(p)
    \/ \E p \in Threads : RevokeAllEnter(p, Client)
    \/ \E p \in Threads : RevokeAllCopy(p)
    \/ \E p \in Threads : RevokeAllUpdate(p)
    \/ \E p \in Threads : RevokeAllDel(p)
    \/ \E p \in Threads : RaceReturn(p)

RegistryRaceSpec == Init /\ [][NextRegistryRace]_vars

-----------------------------------------------------------------------------
(* Properties *)

\* a refresh request that was served
Refreshed(r) == r.op = "refresh" /\ r.reached

\* the refresh gate turns the token away
RefreshRejects(t) == require_refresh_token(Bearer(t)).err = "AuthenticationError"

\* the request gate turns the token away
GateRejects(t) == require_auth(Bearer(t)).err = "AuthenticationError"

(* C1: token rotation.  After a successful refresh presenting refresh token  *)
(* T of user u, T is no longer active for u, the refresh token returned is   *)
(* active for u, and every later refresh presenting T is rejected with       *)
(* AuthenticationError, at whatever clock time the refresh happens.          *)
C1_TokenRotation ==
    /\ Refreshed(resp) =>
          /\ ~is_refresh_token_active(active_refresh_tokens, resp.user, resp.hdr.tok)
          /\ is_refresh_token_active(active_refresh_tokens, resp.user, resp.refresh)
    /\ \A t \in rotated : RefreshRejects(t)

(* C2: revoke_refresh_token(u, T).  Afterwards T is not active for u; if T   *)
(* was active for u before the call, T is in the blacklist afterwards and    *)
(* the call returns True; if T was not active, the call returns False and    *)
(* the registry is unchanged.                                                *)
C2_RevokeRefreshToken ==
    [][resp'.op = "revoke_refresh_token" =>
          LET u == resp'.user
              T == resp'.refresh
          IN  /\ T \notin ActiveOf(active_refresh_tokens', u)
              /\ T \in ActiveOf(active_refresh_tokens, u) =>
                     T \in blacklisted_tokens' /\ resp'.ret
              /\ T \notin ActiveOf(active_refresh_tokens, u) =>
                     /\ ~resp'.ret
                     /\ active_refresh_tokens' = active_refresh_tokens
                     /\ blacklisted_tokens' = blacklisted_tokens]_vars

\* a logout that took the revoke_all branch
LoggedOutAll(r) == r.op = "logout" /\ r.revoked >= 0

(* C3: revoke_all_user_tokens(u), called by a logout with revoke_all,        *)
(* blacklists every refresh token that was active for u, leaves u with no    *)
(* active refresh token, returns the number of tokens it revoked and leaves  *)
(* every other user's active set unchanged; from then on a refresh           *)
(* presenting any refresh token issued to u before that logout is rejected   *)
(* with AuthenticationError.                                                 *)
C3_RevokeAll ==
    /\ [][LoggedOutAll(resp') =>
            LET u == resp'.hdr.tok.username IN
            /\ ActiveOf(active_refresh_tokens, u) \subseteq blacklisted_tokens'
            /\ ActiveOf(active_refresh_tokens', u) = {}
            /\ resp'.revoked = Cardinality(ActiveOf(active_refresh_tokens, u))
            /\ \A v \in DOMAIN users \ {u} :
                   ActiveOf(active_refresh_tokens', v) = ActiveOf(active_refresh_tokens, v)]_vars
    /\ [](\A t \in voided : RefreshRejects(t))

\* a refresh with an unexpired token that a logout-all had blacklisted is
\* rejected while the bystander still holds an active token
C3_Witness ==
    /\ resp.op = "refresh"
    /\ resp.hdr.tok \in voided \cap blacklisted_tokens
    /\ ~Expired(resp.hdr.tok)
    /\ resp.err = "AuthenticationError"
    /\ ActiveOf(active_refresh_tokens, Bystander) # {}

C5_LoggedOutAccessRejected ==
    /\ \A A \in killed : A \in blacklisted_tokens /\ GateRejects(A)
    /\ (resp.op = "readings" /\ resp.hdr.bearer /\ resp.hdr.tok \in killed) =>
          resp.err = "AuthenticationError" /\ ~resp.reached

\* a gated request presenting a logged-out access token before its expiry
C5_Witness ==
    /\ resp.op = "readings"
    /\ resp.hdr.bearer
    /\ resp.hdr.tok \in killed
    /\ ~Expired(resp.hdr.tok)
    /\ resp.err = "AuthenticationError"


\* the identifier a login or signup request is checked against
RequestIdentifier(r) ==
    _get_identifier(r.ip, IF r.op = "signup" THEN NoUsername ELSE r.username)

\* the username argument a login or signup request hands to the limiter
RequestKey(r) == <<r.ip, IF r.op = "signup" THEN NoUsername ELSE r.username>>

C7_IdentifierInjective ==
    resp.err = "RateLimitError" => RequestKey(resp) \in failedFor

(* C8: a request reaches a handler behind require_auth exactly when it       *)
(* carries a bearer token that is not blacklisted, has a valid signature,    *)
(* is not expired and has kind access; then the username in the request      *)
(* context is the token's subject; otherwise the request fails with          *)
(* AuthenticationError and the handler does not run.                         *)
C8_RequestGate ==
    resp.op = "readings" =>
        LET t == resp.hdr.tok
            ok == /\ resp.hdr.bearer
                  /\ t \notin blacklisted_tokens
                  /\ t.sig = "ok"
                  /\ t.exp > now
                  /\ t.type = "access"
        IN  IF ok
            THEN resp.reached /\ resp.err = "" /\ resp.user = t.username
            ELSE ~resp.reached /\ resp.err = "AuthenticationError"

\* the gate has turned away a refresh token that is valid and active
C8_Witness ==
    /\ resp.op = "readings"
    /\ resp.hdr.bearer
    /\ resp.hdr.tok.type = "refresh"
    /\ resp.hdr.tok.sig = "ok"
    /\ ~Expired(resp.hdr.tok)
    /\ resp.hdr.tok \notin blacklisted_tokens
    /\ resp.err = "AuthenticationError"

\* the refresh tokens the service has activated
Activated == {t \in issued : t.type = "refresh"}

(* C9: a request reaches the refresh handler only if its bearer token is     *)
(* not blacklisted, verifies, has kind refresh and is in the active set of   *)
(* its own subject; a rejected request gets 401 and no new tokens; a token   *)
(* that the refresh handler has revoked, or that was never activated, is     *)
(* rejected with AuthenticationError.                                        *)
C9_RefreshGate ==
    /\ [][resp'.op = "refresh" =>
             LET h == resp'.hdr
                 t == h.tok
                 ok == /\ h.bearer
                       /\ t \notin blacklisted_tokens
                       /\ t.sig = "ok"
                       /\ t.exp > now
                       /\ t.type = "refresh"
                       /\ t \in ActiveOf(active_refresh_tokens, t.username)
             IN  /\ resp'.reached => ok
                 /\ ~resp'.reached =>
                       /\ resp'.err = "AuthenticationError"
                       /\ resp'.status = HTTP_UNAUTHORIZED
                       /\ issued' = issued
                       /\ active_refresh_tokens' = active_refresh_tokens]_vars
    /\ [](\A h \in Headers :
             h.tok \notin Activated =>
                 require_refresh_token(h).err = "AuthenticationError")
    /\ [](\A t \in rotated : RefreshRejects(t))

(* C10: a token past its expiry is rejected whatever the registry holds: an  *)
(* expired refresh token fails the refresh endpoint with                     *)
(* AuthenticationError even if active and not blacklisted, and an expired    *)
(* access token fails the request gate even if never blacklisted.            *)
C10_ExpiredRejected ==
    /\ \A t \in issued : t.exp <= now => RefreshRejects(t) /\ GateRejects(t)
    /\ (resp.op \in {"refresh", "readings"} /\ resp.hdr.bearer
            /\ resp.hdr.tok.exp <= now) =>
          /\ resp.err = "AuthenticationError"
          /\ ~resp.reached

\* a refresh turned away for its expired token, which is still active and
\* not blacklisted
C10_Witness ==
    /\ resp.op = "refresh"
    /\ resp.hdr.bearer
    /\ resp.hdr.tok.sig = "ok"
    /\ resp.hdr.tok.type = "refresh"
    /\ resp.hdr.tok.exp <= now
    /\ resp.hdr.tok \in ActiveOf(active_refresh_tokens, resp.hdr.tok.username)
    /\ resp.hdr.tok \notin blacklisted_tokens
    /\ resp.err = "AuthenticationError"

\* what a gate answers: the exception class, its status and its message
Answer(gate) == <<gate.err, StatusOf(gate.err), gate.msg>>

(* C11: verify_token gives one and the same failure (None) for a token with  *)
(* a bad signature, a malformed token and an expired token, and each gate    *)
(* answers the three cases with one identical error (class, status and       *)
(* message), so the response does not tell which check failed.               *)
C11_UniformFailure ==
    /\ verify_token(Malformed) = NoPayload
    /\ \A t \in issued :
          /\ verify_token(Forged(t)) = NoPayload
          /\ Expired(t) => verify_token(t) = NoPayload
          /\ Answer(require_auth(Bearer(Forged(t)))) = Answer(require_auth(Bearer(Malformed)))
          /\ Answer(require_refresh_token(Bearer(Forged(t)))) =
                 Answer(require_refresh_token(Bearer(Malformed)))
          /\ (Expired(t) /\ t \notin blacklisted_tokens) =>
                /\ Answer(require_auth(Bearer(t))) = Answer(require_auth(Bearer(Malformed)))
                /\ Answer(require_refresh_token(Bearer(t))) =
                       Answer(require_refresh_token(Bearer(Malformed)))
    /\ (resp.op \in {"readings", "refresh"} /\ resp.hdr.bearer
            /\ resp.hdr.tok \notin blacklisted_tokens
            /\ (resp.hdr.tok.sig # "ok" \/ Expired(resp.hdr.tok))) =>
          /\ resp.err = "AuthenticationError"
          /\ resp.msg = IF resp.op = "readings" THEN "Invalid or expired token."
                        ELSE "Invalid or expired refresh token."

\* the request gate has answered an expired token that is correctly signed
\* and not blacklisted
C11_Witness ==
    /\ resp.op = "readings"
    /\ resp.hdr.bearer
    /\ resp.hdr.tok.sig = "ok"
    /\ resp.hdr.tok.type = "access"
    /\ Expired(resp.hdr.tok)
    /\ resp.hdr.tok \notin blacklisted_tokens
    /\ resp.msg = "Invalid or expired token."

\* a signup request for a username that has a credential
DuplicateSignup(r) == r.op = "signup" /\ r.username \in DOMAIN users

\* the credential file, the issued tokens and the active sets are as before
NothingCreated ==
    /\ users' = users
    /\ issued' = issued
    /\ active_refresh_tokens' = active_refresh_tokens
    /\ resp'.access = NoToken
    /\ resp'.refresh = NoToken

(* C12, as amended: a signup with a username that already has a credential   *)
(* fails, leaves the credential unchanged, issues no token and activates no  *)
(* refresh token; it fails with the validation error 'already exists' (HTTP  *)
(* 400) when the address is not locked out by the rate limiter and the       *)
(* password is valid, with a rate-limit error (429) when the address is      *)
(* locked out, and with the password's validation error (400) otherwise.     *)
C12_DuplicateSignup ==
    [][DuplicateSignup(resp') =>
          /\ NothingCreated
          /\ ~resp'.reached
          /\ IF ~check_rate_limit(failed_attempts, resp'.ip, NoUsername).allowed
             THEN resp'.err = "RateLimitError"
             ELSE /\ resp'.err = "ValidationError"
                  /\ resp'.status = HTTP_BAD_REQUEST
                  /\ resp'.msg = IF validate_password(resp'.password) = ""
                                 THEN "Username already exists"
                                 ELSE validate_password(resp'.password)]_vars

(* C12, as stated: a signup with a username that already has a credential    *)
(* fails with the validation error 'already exists' (HTTP 400), leaves the   *)
(* credential unchanged, issues no token and activates no refresh token.     *)
C12_DuplicateSignup_AsStated ==
    [][DuplicateSignup(resp') =>
          /\ NothingCreated
          /\ resp'.err = "ValidationError"
          /\ resp'.status = HTTP_BAD_REQUEST
          /\ resp'.msg = "Username already exists"]_vars

\* a duplicate signup has been answered 'already exists' and the first
\* credential is still on file
C12_Witness ==
    /\ resp.op = "signup"
    /\ resp.username = Client
    /\ resp.password = GoodPw
    /\ resp.msg = "Username already exists"
    /\ resp.status = HTTP_BAD_REQUEST
    /\ users[Client] = HashOf(GoodPw)

\* the Credential constraints on a username
WellFormed(username) ==
    /\ Len(username) >= 3
    /\ Len(username) <= 50
    /\ \A i \in DOMAIN username : username[i] = "_" \/ IsAlnumChar(username[i])

(* C14: every username that a successful signup has persisted satisfies the  *)
(* Credential constraints: 3 to 50 characters, only letters, digits and      *)
(* underscores, no whitespace anywhere.                                      *)
C14_PersistedUsernames ==
    /\ \A u \in DOMAIN users : WellFormed(u)
    /\ (resp.op = "signup" /\ resp.reached) => WellFormed(resp.username)

(* C13: username uniqueness.  After any signups, two concurrent signups for  *)
(* one username included, each username has been persisted at most once and  *)
(* at most one signup for it has reported success.                           *)
C13_UsernameUnique ==
    \A p \in Threads, q \in Threads :
        (p # q /\ threads[p].created /\ threads[q].created) =>
            threads[p].username # threads[q].username

\* a login request with a well-formed username that cannot succeed: the
\* username has no credential or the password is not the user's
BadLogin(r) ==
    /\ r.op = "login"
    /\ validate_username(r.username) = ""
    /\ \/ r.username \notin DOMAIN users
       \/ users[r.username] # HashOf(r.password)

\* the limiter holds a lock on the identifier that has not run out
Locked(identifier) ==
    /\ identifier \in DOMAIN failed_attempts
    /\ failed_attempts[identifier].locked_until > now

\* the failures counted for the identifier in the window that is open now
Counted(identifier) ==
    IF identifier \notin DOMAIN failed_attempts THEN 0
    ELSE LET e == failed_attempts[identifier] IN
         IF \/ e.first_attempt = NoTime
            \/ now - e.first_attempt > RATE_LIMIT_WINDOW_SECONDS
            \/ e.locked_until # NoTime
         THEN 0
         ELSE e.attempts

\* exactly one failure more is counted for the identifier, none for another
OneFailureRecorded(identifier) ==
    /\ identifier \in DOMAIN failed_attempts'
    /\ failed_attempts'[identifier].attempts = Counted(identifier) + 1
    /\ \A k \in DOMAIN failed_attempts \ {identifier} :
           failed_attempts'[k] = failed_attempts[k]

\* no token is issued and no refresh token is activated
NoTokens ==
    /\ issued' = issued
    /\ active_refresh_tokens' = active_refresh_tokens
    /\ resp'.access = NoToken
    /\ resp'.refresh = NoToken

(* C15, as amended: a login for a well-formed username, from an address and  *)
(* username not locked out and with a password of valid length, fails with   *)
(* NotFoundError (404) when the username has no credential and with          *)
(* AuthenticationError (401) when the password is wrong; a password of       *)
(* invalid length fails with ValidationError (400) instead; in these cases   *)
(* exactly one failure is recorded against the identifier.  When the         *)
(* identifier is locked out the login fails with a rate-limit error and no   *)
(* failure is recorded.  In every case no token is issued and no refresh     *)
(* token is activated.                                                       *)
C15_LoginFailures ==
    [][BadLogin(resp') =>
          LET id == _get_identifier(resp'.ip, resp'.username) IN
          /\ NoTokens
          /\ IF Locked(id)
             THEN /\ resp'.err = "RateLimitError"
                  /\ failed_attempts' = failed_attempts
             ELSE /\ OneFailureRecorded(id)
                  /\ IF validate_password(resp'.password) # ""
                     THEN resp'.err = "ValidationError"
                             /\ resp'.status = HTTP_BAD_REQUEST
                     ELSE IF resp'.username \notin DOMAIN users
                     THEN resp'.err = "NotFoundError" /\ resp'.status = HTTP_NOT_FOUND
                     ELSE resp'.err = "AuthenticationError"
                             /\ resp'.status = HTTP_UNAUTHORIZED]_vars

(* C15, as stated: a login for a well-formed username without a credential   *)
(* fails with NotFoundError (404), one with a wrong password for an existing *)
(* user with AuthenticationError (401); in both cases exactly one failure is *)
(* recorded against the identifier, no token is issued and no refresh token  *)
(* is activated.                                                             *)
C15_LoginFailures_AsStated ==
    [][BadLogin(resp') =>
          LET id == _get_identifier(resp'.ip, resp'.username) IN
          /\ NoTokens
          /\ OneFailureRecorded(id)
          /\ IF resp'.username \notin DOMAIN users
             THEN resp'.err = "NotFoundError" /\ resp'.status = HTTP_NOT_FOUND
             ELSE resp'.err = "AuthenticationError"
                     /\ resp'.status = HTTP_UNAUTHORIZED]_vars

\* a login for an unknown username answered 404 with its second failure in
\* the window counted, which locks the identifier
C15_Witness ==
    /\ resp.op = "login"
    /\ resp.username = bob
    /\ resp.err = "NotFoundError"
    /\ resp.status = HTTP_NOT_FOUND
    /\ failed_attempts[_get_identifier(Ip1, bob)].attempts = RATE_LIMIT_MAX_ATTEMPTS

\* the calendar minute (its first instant) a stamp falls in
MinuteOf(s) == s.t - (s.t % 60)

\* the positions of the raw readings recorded in minute m
InMinute(raw, m) == {i \in DOMAIN raw : MinuteOf(raw[i].recordedAt) = m}

\* v is the exact mean of the values at positions I, rounded to the nearest
\* hundredth: |v - mean| <= 0.005
IsRoundedMean(v, raw, I) ==
    LET n == Cardinality(I)
        total == Sum([k \in 1..Len(raw) |-> IF k \in I THEN raw[k].tempC ELSE 0])
        d == 2 * n * v - 2 * total
    IN  n > 0 /\ d <= n /\ -d <= n

(* C16: minute averaging.  For every list of raw readings the result has     *)
(* exactly one reading per calendar minute that occurs among the inputs and  *)
(* none for any other minute; each output is stamped with the start of its   *)
(* minute and carries the mean, rounded to 2 decimals, of the values         *)
(* recorded in that minute; the outputs are in ascending minute order.       *)
C16_MinuteAveraging ==
    rsvc.op = "average" =>
        LET raw == rsvc.raw
            out == rsvc.result
        IN  /\ {out[i].recordedAt.t : i \in DOMAIN out} =
                   {MinuteOf(raw[i].recordedAt) : i \in DOMAIN raw}
            /\ \A i \in DOMAIN out, j \in DOMAIN out :
                   i < j => out[i].recordedAt.t < out[j].recordedAt.t
            /\ \A i \in DOMAIN out :
                   /\ (out[i].recordedAt.t + out[i].recordedAt.off) % 60 = 0
                   /\ MinuteOf(out[i].recordedAt) = out[i].recordedAt.t
                   /\ IsRoundedMean(out[i].tempC, raw, InMinute(raw, out[i].recordedAt.t))

\* 20.00 at :05 and 22.01 at :40 of one minute and 30.00 in the next, given
\* out of order, come back as two readings in minute order: 21.00 and 30.00
C16_Witness ==
    /\ rsvc.op = "average"
    /\ rsvc.raw = <<Reading(3000, Iso(70, 0, TRUE)), Reading(2000, Iso(5, 0, TRUE)),
                    Reading(2201, Iso(40, 0, TRUE))>>
    /\ rsvc.result = <<Reading(2100, Iso(0, 0, TRUE)), Reading(3000, Iso(60, 0, TRUE))>>

\* the two bounds of the last get_readings call
StartArg == rsvc.args[1]
EndArg == rsvc.args[2]

\* a bound is missing or unparseable, or the start lies after the end
BadRange ==
    \/ ~Parses(StartArg)
    \/ ~Parses(EndArg)
    \/ StartArg.t > EndArg.t

(* C17: get_readings fails with ValidationError whenever a bound is missing  *)
(* or unparseable or start > end, whatever the store holds, and then the     *)
(* store is not queried; with start == end the request is accepted: the      *)
(* store is queried and no ValidationError is raised.                        *)
C17_RangeValidation ==
    rsvc.op = "get_readings" =>
        /\ BadRange => rsvc.error = "ValidationError" /\ ~rsvc.queried
        /\ (~BadRange /\ StartArg.t = EndArg.t) =>
               rsvc.error # "ValidationError" /\ rsvc.queried

\* start > end is refused although the store holds a reading in between the
\* two bounds taken the other way round
C17_Witness ==
    /\ rsvc.op = "get_readings"
    /\ StartArg = Iso(70, 0, FALSE) /\ EndArg = Iso(0, 0, TRUE)
    /\ Len(store) = 3
    /\ rsvc.error = "ValidationError" /\ ~rsvc.queried

(* C18: when the store raises a fault while get_readings queries it, the    *)
(* call returns an empty result and raises nothing.                          *)
C18_FaultGivesEmpty ==
    (rsvc.op = "get_readings" /\ rsvc.fault) =>
        rsvc.error = "" /\ rsvc.result = << >>

\* the last call was read_readings(r.recordedAt, r.recordedAt) without a room
\* filter, made right after r was appended
RoundTrip(r) ==
    /\ rsvc.op = "read_readings"
    /\ r \in rsvc.written
    /\ rsvc.args[1] = r.recordedAt /\ rsvc.args[2] = r.recordedAt
    /\ rsvc.args[3] = {}

\* the item is the reading r: its id, room and value, at r's instant
IsReading(item, r) ==
    /\ item.id = r.id /\ item.room = r.room /\ item.valueC = r.valueC
    /\ item.recordedAt.t = r.recordedAt.t

(* C19: append/query round trip.  After a reading r with a value within the *)
(* bounds is appended, a query from r.recordedAt to r.recordedAt without a  *)
(* room filter returns a result containing r, whatever was stored before.   *)
C19_RoundTrip ==
    \A r \in rsvc.written :
        RoundTrip(r) => \E i \in DOMAIN rsvc.result : IsReading(rsvc.result[i], r)

\* the stored rows that a range names
InRange(from, to) ==
    {row \in AllRows(csv) : from.t <= row.recordedAt.t /\ row.recordedAt.t <= to.t}

(* C20: a query without a room filter and with a limit above the number of  *)
(* stored readings returns every stored reading recorded from `from` to     *)
(* `to`, both ends included, and no other, also across calendar days and    *)
(* with stamps written with different UTC offsets.                           *)
C20_InclusiveRange ==
    (rsvc.op = "read_readings" /\ rsvc.args[3] = {}
        /\ rsvc.args[4] > Cardinality(AllRows(csv))) =>
        {rsvc.result[i].id : i \in DOMAIN rsvc.result} =
            {row.id : row \in InRange(rsvc.args[1], rsvc.args[2])}

(* C21: read_readings returns its items in ascending recordedAt order,      *)
(* whatever order the readings were appended in.                             *)
C21_AscendingOrder ==
    rsvc.op = "read_readings" =>
        \A i \in DOMAIN rsvc.result, j \in DOMAIN rsvc.result :
            i < j => rsvc.result[i].recordedAt.t <= rsvc.result[j].recordedAt.t

\* the value of the sample the last ingest call was given, as a float
SampleValue ==
    IF rsvc.op = "background_ingest" THEN rsvc.args[1].val ELSE Num(rsvc.args[2])

\* the last call handed a sample with a float value to a write path
SampleIngested ==
    /\ rsvc.op \in {"ingest", "serial_ingest", "background_ingest"}
    /\ rsvc.op = "background_ingest" => rsvc.args[1].kind = "float"

\* min <= value <= max
WithinRange(x) == ~x.nan /\ MinValueC <= x.v /\ x.v <= MaxValueC

(* C22: a sample whose value lies outside [min, max] is rejected and        *)
(* nothing is persisted; a value equal to min or to max is accepted and     *)
(* persisted.                                                                *)
C22_RangeEnforced ==
    SampleIngested =>
        /\ ~WithinRange(SampleValue) => rsvc.written = {}
        /\ (~SampleValue.nan /\ SampleValue.v \in {MinValueC, MaxValueC}) =>
               rsvc.written # {}

\* the positions in the day file 0 of the rows that are whole, parse, and
\* were recorded in the range of the last query
SoundInRange ==
    {i \in DOMAIN csv[0] :
        /\ DOMAIN csv[0][i] = {"id", "room", "valueC", "recordedAt"}
        /\ "t" \in DOMAIN csv[0][i].recordedAt
        /\ rsvc.args[1].t <= csv[0][i].recordedAt.t
        /\ csv[0][i].recordedAt.t <= rsvc.args[2].t}

(* C23: a malformed persisted row (unparseable timestamp, unparseable       *)
(* value, truncated row) is skipped: the query does not fail and, without   *)
(* room filter and with a limit above the number of rows, returns every     *)
(* well-formed reading in range.                                             *)
C23_MalformedRowsSkipped ==
    (rsvc.op = "read_readings" /\ 0 \in DOMAIN csv) =>
        /\ rsvc.error = ""
        /\ (rsvc.args[3] = {} /\ rsvc.args[4] > Len(csv[0])) =>
               \A i \in SoundInRange :
                   \E k \in DOMAIN rsvc.result : rsvc.result[k].id = csv[0][i].id

(* C24: every persisted reading lies in the partition of the UTC calendar   *)
(* date of its recordedAt, whatever UTC offset the recordedAt string has.   *)
C24_UtcPartition ==
    \A p \in DOMAIN csv : \A i \in DOMAIN csv[p] :
        csv[p][i].recordedAt.t \div Day = p

\* the command queued at time ts is pending in the file, waits in the batch
\* of the poll loop, or has been sent to the device
InFlightOrSent(ts) ==
    \/ \E i \in DOMAIN cmdq.file :
           cmdq.file[i].timestamp = ts /\ cmdq.file[i].status = "pending"
    \/ \E i \in DOMAIN cmdq.batch : cmdq.batch[i].timestamp = ts
    \/ \E i \in DOMAIN cmdq.sent : cmdq.sent[i] = ts

(* C25: every command queue_command has queued is picked up, sent and       *)
(* marked processed exactly once, under any interleaving of enqueues with   *)
(* the poll loop: no queued command is ever lost, none is sent twice, and   *)
(* every command that was sent is marked processed in the queue file.       *)
C25_ExactlyOnce ==
    /\ \A ts \in cmdq.queued : InFlightOrSent(ts)
    /\ \A i \in DOMAIN cmdq.sent, j \in DOMAIN cmdq.sent :
           cmdq.sent[i] = cmdq.sent[j] => i = j
    /\ \A i \in DOMAIN cmdq.sent :
           \E k \in DOMAIN cmdq.file :
               cmdq.file[k].timestamp = cmdq.sent[i] /\ cmdq.file[k].status = "processed"

\* thread p has answered 200 to a refresh request that presented T and has
\* handed out a refresh token other than T
ThreadRefreshed(p, T) ==
    /\ threads[p].pc = "done" /\ "hdr" \in DOMAIN threads[p]
    /\ threads[p].status = HTTP_OK
    /\ threads[p].hdr.tok = T
    /\ threads[p].refresh # T

(* C26: of two refresh requests that present the same active refresh token *)
(* T and run concurrently, at most one succeeds.                            *)
C26_SingleUseConcurrent ==
    \A p \in Threads, q \in Threads :
        p # q => \A T \in issued : ~(ThreadRefreshed(p, T) /\ ThreadRefreshed(q, T))

\* the identifier of the last limiter call, the table before the call, the
\* time of the call and the identifier's entry before and after it
CallIdentifier == _get_identifier(rsvc.args[1], rsvc.args[2])
TableBefore == rsvc.raw[1]
CallTime == rsvc.raw[2]
EntryBefore ==
    IF CallIdentifier \in DOMAIN TableBefore THEN TableBefore[CallIdentifier]
    ELSE [attempts |-> 0, first_attempt |-> NoTime, locked_until |-> NoTime]
EntryAfter == failed_attempts[CallIdentifier]

(* C27: lock expiry.  When check_rate_limit is called for a locked          *)
(* identifier and the time has reached lockedUntil, the request is allowed  *)
(* and the entry is left clear (count 0, no window start, no lock); while   *)
(* the time is before lockedUntil the request is rejected and the table is  *)
(* not changed.                                                              *)
C27_LockExpiry ==
    (rsvc.op = "check_rate_limit" /\ EntryBefore.locked_until # NoTime) =>
        IF CallTime >= EntryBefore.locked_until
        THEN /\ rsvc.result[1]
             /\ EntryAfter.attempts = 0
             /\ EntryAfter.first_attempt = NoTime
             /\ EntryAfter.locked_until = NoTime
        ELSE /\ ~rsvc.result[1]
             /\ failed_attempts = TableBefore

\* a check at the very second the lock ends is allowed and clears the entry
C27_Witness ==
    /\ rsvc.op = "check_rate_limit"
    /\ EntryBefore.locked_until = CallTime
    /\ EntryBefore.attempts >= RATE_LIMIT_MAX_ATTEMPTS
    /\ rsvc.result[1]
    /\ EntryAfter.attempts = 0

LoginIdentifier == _get_identifier(resp.ip, resp.username)

(* C29: a successful login leaves the (ip, username) entry clear, and a     *)
(* login is rejected by the limiter only when the maximum number of         *)
(* failures has been recorded for its identifier since the last successful  *)
(* login: N-1 failures, a success and N-1 more failures reject nothing.     *)
C29_SuccessResets ==
    resp.op = "login" =>
        /\ resp.status = HTTP_OK =>
               failed_attempts[LoginIdentifier] = DefaultEntry
        /\ resp.status = HTTP_TOO_MANY_REQUESTS =>
               StreakOf(streak, LoginIdentifier).since >= RATE_LIMIT_MAX_ATTEMPTS

\* within one second: a failed login, a successful one and another failed
\* one, which is answered 401 and is again the first of its streak
C29_Witness ==
    /\ resp.op = "login" /\ resp.status = HTTP_UNAUTHORIZED
    /\ now = StartTime
    /\ StreakOf(streak, LoginIdentifier).fails = RATE_LIMIT_MAX_ATTEMPTS
    /\ StreakOf(streak, LoginIdentifier).since = RATE_LIMIT_MAX_ATTEMPTS - 1
    /\ failed_attempts[LoginIdentifier].attempts = RATE_LIMIT_MAX_ATTEMPTS - 1
    /\ failed_attempts[LoginIdentifier].locked_until = NoTime



\* thread p has returned from revoke_refresh_token
Revoked(p) == threads[p].pc = "done" /\ "token" \in DOMAIN threads[p]

(* C30: two concurrent revoke_refresh_token calls on different tokens of    *)
(* one user both take effect: when both have returned, neither token is     *)
(* active for that user, under every interleaving.                          *)
C30_BothRevoked ==
    \A p \in Threads, q \in Threads :
        (Revoked(p) /\ Revoked(q) /\ threads[p].user = threads[q].user
            /\ threads[p].token # threads[q].token) =>
            /\ ~is_refresh_token_active(active_refresh_tokens, threads[p].user,
                                        threads[p].token)
            /\ ~is_refresh_token_active(active_refresh_tokens, threads[q].user,
                                        threads[q].token)

\* two calls that overlapped, on two tokens that were both active, have
\* returned
C30_Witness ==
    \E p \in Threads, q \in Threads :
        /\ Revoked(p) /\ Revoked(q)
        /\ threads[p].user = threads[q].user /\ threads[p].token # threads[q].token
        /\ threads[p].was_active /\ threads[q].was_active
        /\ threads[q].overlapped
        /\ ActiveOf(active_refresh_tokens, threads[p].user) = {}

\* the threads that have returned from record_failed_attempt for identifier
Recorded(identifier) ==
    {p \in Threads : /\ threads[p].pc = "done"
                     /\ "identifier" \in DOMAIN threads[p]
                     /\ threads[p].identifier = identifier}

\* every thread has returned, and the calls for identifier fall in one window
OneWindow(identifier) ==
    /\ \A p \in Threads : threads[p].pc = "done"
    /\ \A p \in Recorded(identifier), q \in Recorded(identifier) :
           threads[p].current_time - threads[q].current_time <= RATE_LIMIT_WINDOW_SECONDS

(* C31: K concurrent record_failed_attempt calls for one identifier within *)
(* one window raise its failure count by exactly K, and once K reaches      *)
(* RATE_LIMIT_MAX_ATTEMPTS the identifier is locked.                        *)
C31_NoLostIncrement ==
    \A identifier \in DOMAIN failed_attempts :
        OneWindow(identifier) =>
            LET K == Cardinality(Recorded(identifier)) IN
            /\ failed_attempts[identifier].attempts = K
            /\ K >= RATE_LIMIT_MAX_ATTEMPTS =>
                   failed_attempts[identifier].locked_until # NoTime

(* C32: two processes that call _acquire_file_lock concurrently never both  *)
(* hold the lock at the same time, and _release_file_lock never removes a   *)
(* lock that another process holds.                                         *)
C32_MutualExclusion ==
    /\ Cardinality(cmdq.lock.holders) <= 1
    /\ \A p \in Threads : "removed_held" \in DOMAIN threads[p] => ~threads[p].removed_held

\* process p has returned from an operation it began while another process
\* had stopped holding the lock
Hindered(p) ==
    /\ threads[p].pc = "done" /\ "blocked" \in DOMAIN threads[p]
    /\ threads[p].blocked

(* C33: an operation called while the lock file is never released by its    *)
(* holder ends after the timeout: it reports failure, has not modified the  *)
(* queue file and has not removed the holder's lock file.                   *)
C33_GivesUp ==
    \A p \in Threads :
        Hindered(p) =>
            /\ threads[p].ret = "failed"
            /\ ~threads[p].wrote
            /\ ~threads[p].broke
            /\ cmdq.lock.exists

\* every operation a process has begun returns, unless the process itself
\* stops inside it
C33_Terminates ==
    \A p \in Threads :
        (threads[p].pc # "idle") ~> (threads[p].pc \in {"idle", "done", "stuck"})

\* the response to a signup whose credential could not be persisted
FaultedSignup(r) == r.op = "signup" /\ r.err = "StorageFault"

Issues(r) == r.access # NoToken /\ r.refresh # NoToken

(* C35: token strings are unique per issuance: two distinct issuances       *)
(* (signup, login or refresh, same user and kind, at any clock times, the   *)
(* same second included) return different token strings.                    *)
C35_UniquePerIssuance ==
    [][Issues(resp') => resp'.access \notin issued /\ resp'.refresh \notin issued]_vars

(* C36: in every state reachable through signup, login, refresh, logout and *)
(* logout-all, no token is both in some user's active refresh set and in    *)
(* the blacklist; hence every refresh token a successful signup, login or   *)
(* refresh returns passes the refresh gate when presented at once.          *)
C36_ActiveNotBlacklisted ==
    /\ \A username \in DOMAIN active_refresh_tokens :
           ActiveOf(active_refresh_tokens, username) \cap blacklisted_tokens = {}
    /\ Issues(resp) => require_refresh_token(Bearer(resp.refresh)).err = ""

(* C37: mark_command_processed(ts) changes only the command whose           *)
(* timestamp is ts: every other command that was pending in the queue       *)
(* before the call is still pending after it, so a later                    *)
(* get_pending_commands still returns it.                                   *)
C37_MarkTouchesOne ==
    [][Len(cmdq'.sent) > Len(cmdq.sent) =>
          LET ts == cmdq'.sent[Len(cmdq'.sent)]
              before == get_pending_commands(cmdq.file)
              after == get_pending_commands(cmdq'.file)
          IN  \A i \in DOMAIN before :
                  before[i].timestamp # ts =>
                      \E j \in DOMAIN after : after[j] = before[i]]_vars

\* a login that presents the password of an existing credential
GoodLogin(r) == r.op = "login" /\ verify_password(users, r.username, r.password)

\* every entry counts at most the maximum, and one that counts the maximum
\* carries a lock
EntriesBounded ==
    \A identifier \in DOMAIN failed_attempts :
        /\ failed_attempts[identifier].attempts <= RATE_LIMIT_MAX_ATTEMPTS
        /\ failed_attempts[identifier].attempts = RATE_LIMIT_MAX_ATTEMPTS =>
               failed_attempts[identifier].locked_until # NoTime

(* C38: in every state reachable by signups and logins handled one at a     *)
(* time, each identifier's failure count is at most                         *)
(* RATE_LIMIT_MAX_ATTEMPTS and a count equal to it implies locked_until is  *)
(* set; while an identifier is locked, a login with correct credentials is  *)
(* rejected with the rate-limit error, issues no token and leaves the entry *)
(* unchanged.                                                               *)
C38_EntryInvariant ==
    /\ []EntriesBounded
    /\ [][(GoodLogin(resp') /\ Locked(RequestIdentifier(resp'))) =>
             /\ resp'.status = HTTP_TOO_MANY_REQUESTS
             /\ resp'.err = "RateLimitError"
             /\ NoTokens
             /\ failed_attempts' = failed_attempts]_vars

\* a login with the right password has been turned away while its
\* identifier counts the maximum and is locked
C38_Witness ==
    /\ GoodLogin(resp)
    /\ resp.status = HTTP_TOO_MANY_REQUESTS
    /\ Locked(RequestIdentifier(resp))
    /\ failed_attempts[RequestIdentifier(resp)].attempts = RATE_LIMIT_MAX_ATTEMPTS

\* the refresh tokens issued together with access token a
IssuedWith(a) ==
    {t \in issued : t.type = "refresh" /\ t.username = a.username /\ t.iat = a.iat}

(* C39: logout without revoke_all changes nothing but the blacklist entry   *)
(* of the presented access token: every user's active refresh-token set is  *)
(* unchanged, so the refresh token issued together with the logged-out      *)
(* access token can still be exchanged for a new pair afterwards.           *)
C39_PlainLogoutFrame ==
    [][(resp'.op = "logout" /\ ~resp'.revoke_all) =>
          /\ active_refresh_tokens' = active_refresh_tokens
          /\ blacklisted_tokens' \subseteq blacklisted_tokens \cup {resp'.hdr.tok}
          /\ users' = users /\ failed_attempts' = failed_attempts
          /\ \A t \in issued :
                 t.type = "refresh" =>
                     require_refresh_token(Bearer(t))' = require_refresh_token(Bearer(t))]_vars

\* a valid access token has been logged out without revoke_all, and the
\* refresh token issued with it still passes the refresh gate
C39_Witness ==
    /\ resp.op = "logout" /\ ~resp.revoke_all
    /\ ValidAccess(resp.hdr)
    /\ resp.hdr.tok \in blacklisted_tokens
    /\ \E t \in IssuedWith(resp.hdr.tok) : require_refresh_token(Bearer(t)).err = ""
    /\ \E username \in DOMAIN active_refresh_tokens :
           username # resp.hdr.tok.username /\ ActiveOf(active_refresh_tokens, username) # {}

\* thread p has returned from the call
Returned(p, call) ==
    /\ threads[p].pc = "done" /\ "call" \in DOMAIN threads[p]
    /\ threads[p].call = call

(* C40: revoke_all_user_tokens racing with add_refresh_token for one user:  *)
(* under every interleaving each refresh token revoke_all removes from the  *)
(* user's active set is in the blacklist afterwards, and a login that       *)
(* completes concurrently never hands out a refresh token that is neither   *)
(* active nor blacklisted.                                                  *)
C40_RevokeAllRace ==
    \A p \in Threads :
        /\ Returned(p, "revoke_all_user_tokens") =>
               threads[p].removed \subseteq blacklisted_tokens
        /\ Returned(p, "add_refresh_token") =>
               \/ is_refresh_token_active(active_refresh_tokens, threads[p].user,
                                          threads[p].token)
               \/ is_token_blacklisted(blacklisted_tokens, threads[p].token)

=============================================================================
